---- MODULE Spec2Model ----
(***************************************************************************)
(* Piercer: the WireGuard peer registry (core/wg_parser.py), its HTTP      *)
(* control surface (routers/wg.py) and the name resolver (dns_server.py).  *)
(*                                                                         *)
(* Text is a sequence of tokens.  A token is one character ("a", " ",      *)
(* "\n", "5", ".", "/", "=") or one of the fixed literals the code writes  *)
(* and its regular expressions look for ("# ClientName:", "[Peer]",        *)
(* "PublicKey", ...), or an opaque word of an input (a key, a device       *)
(* name).  The characters of the inputs never spell a part of a literal,   *)
(* so a literal occurs in a text exactly where its token does.  A banner   *)
(* line is the token BANNER, the line generate_peer_block writes: the      *)
(* patterns' "# =+" admits banners of other lengths, which no operation    *)
(* writes.  None (the Python value) is the one-token sequence <<"<None>">>.*)
(* A token is as long as its characters are many: a text written over the  *)
(* start of a longer one ends where its characters end, and the rest of    *)
(* the token it ends in is a token of its own.                             *)
(*                                                                         *)
(* store is the text of the file at wg_config_path (Absent when there is   *)
(* no file), last the operation just served with its request and answer,   *)
(* enable_wg_reload the setting of that name.                              *)
(***************************************************************************)
EXTENDS Integers, Sequences, FiniteSets, TLC

VARIABLES store, last, enable_wg_reload,
          calls, written,
          running, socket, thread, stop_called

\* the add calls in progress, and the calls that wrote, in the order of writing
race_vars == <<calls, written>>

\* InternalDNSServer: its running flag, its socket, the position of its loop
\* thread, and whether stop() has been called
dns_vars == <<running, socket, thread, stop_called>>

vars == <<store, last, enable_wg_reload, race_vars, dns_vars>>

(***************************************************************************)
(* Literals                                                                *)
(***************************************************************************)
NL == "\n"
BANNER == "# =========================================="
PEER_HDR == "[Peer]"
PUBLIC_KEY == "PublicKey"
ALLOWED_IPS == "AllowedIPs"
PRESHARED_KEY == "PresharedKey"
ENDPOINT == "Endpoint"
\* "# =+\n# ClientName: ", "\n# AddedAt: ", "\n# =+\n[Peer]\n" and "\n# =+"
HEADER_START == <<BANNER, NL, "# ClientName:", " ">>
NAME_END == <<NL, "# AddedAt:", " ">>
HEADER_TAIL == <<NL, BANNER, NL, PEER_HDR, NL>>
BLOCK_END == <<NL, BANNER>>
None == <<"<None>">>
Absent == <<"<Absent>">>
EOF == "<EOF>"

Whitespace == {" ", NL, "\t"}

(***************************************************************************)
(* String helpers (str.strip, str.rstrip, str.split, str.lower)            *)
(***************************************************************************)
At(t, i) == IF i >= 1 /\ i <= Len(t) THEN t[i] ELSE EOF

RECURSIVE RStrip(_)
RStrip(s) ==
    IF s # <<>> /\ s[Len(s)] \in Whitespace
    THEN RStrip(SubSeq(s, 1, Len(s) - 1))
    ELSE s

RECURSIVE LStrip(_)
LStrip(s) ==
    IF s # <<>> /\ s[1] \in Whitespace THEN LStrip(Tail(s)) ELSE s

Strip(s) == LStrip(RStrip(s))

\* the number of characters of the tokens lo..hi of the text s
RECURSIVE CharsOf(_, _, _)
CharsOf(s, lo, hi) ==
    IF lo > hi THEN 0
    ELSE IF lo = hi THEN Len(s[lo])
    ELSE CharsOf(s, lo, (lo + hi) \div 2) + CharsOf(s, (lo + hi) \div 2 + 1, hi)

\* the text s from its token k on, the first cut characters of that token left out
DropFrom(s, k, cut) ==
    (IF cut = 0 THEN <<s[k]>> ELSE <<SubSeq(s[k], cut + 1, Len(s[k]))>>)
    \o SubSeq(s, k + 1, Len(s))

\* the token of s that holds its character n + 1
TokenAt(s, n) ==
    CHOOSE k \in 1..Len(s) : CharsOf(s, 1, k - 1) <= n /\ n < CharsOf(s, 1, k)

\* s[n:]
DropChars(s, n) ==
    IF n = 0 THEN s
    ELSE IF n >= CharsOf(s, 1, Len(s)) THEN <<>>
    ELSE DropFrom(s, TokenAt(s, n), n - CharsOf(s, 1, TokenAt(s, n) - 1))

\* f.write(content) and the close of a file opened with mode "w": the text
\* goes to the start of the file as it is by now, and what the file holds
\* beyond the end of the text stays
WriteAtStart(content, file) ==
    content \o DropChars(file, CharsOf(content, 1, Len(content)))

\* s.split(sep)[0]
RECURSIVE SplitHead(_, _)
SplitHead(s, sep) ==
    IF s = <<>> \/ s[1] = sep THEN <<>>
    ELSE <<s[1]>> \o SplitHead(Tail(s), sep)

\* s.split(sep): the sequence of the pieces
RECURSIVE Split(_, _)
Split(s, sep) ==
    LET h == SplitHead(s, sep)
    IN  IF Len(h) = Len(s) THEN <<h>>
        ELSE <<h>> \o Split(SubSeq(s, Len(h) + 2, Len(s)), sep)

LowerTok(c) ==
    CASE c = "A" -> "a"
      [] c = "B" -> "b"
      [] c = "Server" -> "server"
      [] c = "Gateway" -> "gateway"
      [] OTHER -> c

Lower(s) == [i \in 1..Len(s) |-> LowerTok(s[i])]

(***************************************************************************)
(* ipaddress.IPv4Address: an address is the tuple of its four octets,      *)
(* Invalid when the constructor raises ValueError                          *)
(***************************************************************************)
Digits == {"0", "1", "2", "3", "4", "5", "6", "7", "8", "9"}

DigitVal(c) ==
    CASE c = "0" -> 0 [] c = "1" -> 1 [] c = "2" -> 2 [] c = "3" -> 3
      [] c = "4" -> 4 [] c = "5" -> 5 [] c = "6" -> 6 [] c = "7" -> 7
      [] c = "8" -> 8 [] c = "9" -> 9

DigitTok(n) == <<"0", "1", "2", "3", "4", "5", "6", "7", "8", "9">>[n + 1]

Invalid == <<-1>>

RECURSIVE DecVal(_)
DecVal(o) ==
    IF o = <<>> THEN 0
    ELSE 10 * DecVal(SubSeq(o, 1, Len(o) - 1)) + DigitVal(o[Len(o)])

\* ipaddress._parse_octet
OctetOk(o) ==
    /\ Len(o) \in 1..3
    /\ \A i \in 1..Len(o) : o[i] \in Digits
    /\ (Len(o) > 1 => o[1] # "0")
    /\ DecVal(o) <= 255

IPv4Address(s) ==
    LET parts == Split(s, ".")
    IN  IF "/" \notin {s[i] : i \in 1..Len(s)}
           /\ Len(parts) = 4
           /\ \A i \in 1..4 : OctetOk(parts[i])
        THEN <<DecVal(parts[1]), DecVal(parts[2]), DecVal(parts[3]), DecVal(parts[4])>>
        ELSE Invalid

RECURSIVE DecStr(_)
DecStr(n) == IF n < 10 THEN <<DigitTok(n)>> ELSE DecStr(n \div 10) \o <<DigitTok(n % 10)>>

\* str(IPv4Address)
IpStr(a) ==
    DecStr(a[1]) \o <<".">> \o DecStr(a[2]) \o <<".">> \o DecStr(a[3]) \o <<".">> \o DecStr(a[4])

\* f"10.8.0.{i}"
PoolCandidate(i) == IPv4Address(<<"1", "0", ".", "8", ".", "0", ".">> \o DecStr(i))

SERVER_IP == IPv4Address(<<"1", "0", ".", "8", ".", "0", ".", "1">>)

(***************************************************************************)
(* PEER_PATTERN.finditer: ^# =+\n# ClientName: (.+?)\n# AddedAt: (.+?)\n   *)
(* # =+\n\[Peer\]\n(.*?)(?=\n# =+|\Z)  with MULTILINE | DOTALL             *)
(***************************************************************************)
\* the literal lit stands in t at position p
StartsAt(t, p, lit) ==
    p >= 1 /\ p <= Len(t) /\ t[p] = lit[1] /\ p + Len(lit) - 1 <= Len(t)
    /\ \A k \in 2..Len(lit) : t[p + k - 1] = lit[k]

\* first q >= p where lit stands, 0 when there is none
FirstOrPast(t, lit, p) ==
    CHOOSE q \in p..(Len(t) + 1) :
        /\ q > Len(t) \/ StartsAt(t, q, lit)
        /\ \A r \in p..(q - 1) : ~StartsAt(t, r, lit)
NotPast(t, q) == IF q > Len(t) THEN 0 ELSE q
Find(t, lit, p) == IF p > Len(t) THEN 0 ELSE NotPast(t, FirstOrPast(t, lit, p))

\* first q >= from where the lookahead (?=\n# =+|\Z) holds
OrEnd(t, e) == IF e = 0 THEN Len(t) + 1 ELSE e
FindBlockEnd(t, q) == OrEnd(t, Find(t, BLOCK_END, q))

NoMatch == [found |-> FALSE, start |-> 0, end |-> 0]

\* The match that begins with the banner at i, the name group beginning at
\* name_from: each lazy group ends at the first place where the rest of the
\* pattern can match (p1: where "\n# AddedAt: " stands, p2: where
\* "\n# =+\n[Peer]\n" stands, q: where the lookahead holds).
PeerMatch(t, i, name_from, p1, p2, q) ==
    [found |-> TRUE, start |-> i, end |-> q,
     name |-> SubSeq(t, name_from, p1 - 1),
     date |-> SubSeq(t, p1 + Len(NAME_END), p2 - 1),
     block |-> SubSeq(t, p2 + Len(HEADER_TAIL), q - 1)]

MatchTail(t, i, name_from, p1, p2) ==
    IF p2 = 0 THEN NoMatch
    ELSE PeerMatch(t, i, name_from, p1, p2, FindBlockEnd(t, p2 + Len(HEADER_TAIL)))

MatchDate(t, i, name_from, p1) ==
    IF p1 = 0 THEN NoMatch
    ELSE MatchTail(t, i, name_from, p1, Find(t, HEADER_TAIL, p1 + Len(NAME_END) + 1))

MatchBody(t, i, name_from) == MatchDate(t, i, name_from, Find(t, NAME_END, name_from + 1))

PeerMatchAt(t, i) ==
    IF (i = 1 \/ t[i - 1] = NL) /\ StartsAt(t, i, HEADER_START)
    THEN MatchBody(t, i, i + Len(HEADER_START))
    ELSE NoMatch

\* pattern.search(t, from): the leftmost match that begins at from or later;
\* a match begins with a banner, so the banners are tried from left to right
RECURSIVE PeerSearch(_, _)
PeerSearchAt(t, j, m) == IF m.found THEN m ELSE PeerSearch(t, j + 1)
PeerSearchNext(t, j) == IF j = 0 THEN NoMatch ELSE PeerSearchAt(t, j, PeerMatchAt(t, j))
PeerSearch(t, from) == PeerSearchNext(t, Find(t, <<BANNER>>, from))

\* finditer: the matches from position from on, each search beginning where
\* the match before it ended.  MatchChain gives the first n of them, taken
\* half by half so that a long file needs no deep evaluation.
RECURSIVE MatchChain(_, _, _)
OneMatch(m) == IF m.found THEN <<m>> ELSE <<>>
ChainOn(t, head, k, n) ==
    IF Len(head) < k THEN head
    ELSE head \o MatchChain(t, head[Len(head)].end, n - k)
MatchChain(t, from, n) ==
    IF n <= 0 THEN <<>>
    ELSE IF n = 1 THEN OneMatch(PeerSearch(t, from))
    ELSE ChainOn(t, MatchChain(t, from, n \div 2), n \div 2, n)

PeerMatches(t, from) == MatchChain(t, from, Len(t))

(***************************************************************************)
(* The field patterns  Key\s*=\s*(.+)  searched in a block, and .strip()   *)
(***************************************************************************)
RECURSIVE SkipWhitespace(_, _)
SkipWhitespace(s, p) ==
    IF p <= Len(s) /\ s[p] \in Whitespace THEN SkipWhitespace(s, p + 1) ELSE p

RECURSIVE LineEnd(_, _)
LineEnd(s, p) == IF p > Len(s) \/ s[p] = NL THEN p ELSE LineEnd(s, p + 1)

NoField == [found |-> FALSE, group |-> <<>>]

\* The match that begins with the key at k, the "=" at e, the group at p.  The
\* second \s* is greedy and runs over line breaks to the first character that
\* is no whitespace, where (.+) takes the rest of that line; when only
\* whitespace follows the "=", \s* gives back to the last blank that is no
\* line break and the group is blank.
FieldGroup(block, e, p) ==
    IF p <= Len(block)
    THEN [found |-> TRUE, group |-> SubSeq(block, p, LineEnd(block, p) - 1)]
    ELSE IF \E i \in (e + 1)..Len(block) : block[i] # NL
    THEN [found |-> TRUE, group |-> <<" ">>]
    ELSE NoField

FieldEquals(block, e) ==
    IF At(block, e) # "=" THEN NoField
    ELSE FieldGroup(block, e, SkipWhitespace(block, e + 1))

FieldMatchAt(block, key, k) ==
    IF At(block, k) # key THEN NoField
    ELSE FieldEquals(block, SkipWhitespace(block, k + 1))

\* pattern.search(block): the stripped group of the leftmost match, None when
\* there is no match
RECURSIVE FieldSearchFrom(_, _, _)
FieldSearchAt(block, key, k, m) ==
    IF m.found THEN Strip(m.group) ELSE FieldSearchFrom(block, key, k + 1)
FieldSearchNext(block, key, k) ==
    IF k = 0 THEN None ELSE FieldSearchAt(block, key, k, FieldMatchAt(block, key, k))
FieldSearchFrom(block, key, from) == FieldSearchNext(block, key, Find(block, <<key>>, from))

FieldSearch(block, key) == FieldSearchFrom(block, key, 1)

(***************************************************************************)
(* WgParser                                                                *)
(***************************************************************************)
WgPeer(m) ==
    [name |-> Strip(m.name),
     public_key |-> FieldSearch(m.block, PUBLIC_KEY),
     allowed_ips |-> FieldSearch(m.block, ALLOWED_IPS),
     added_at |-> Strip(m.date),
     endpoint |-> FieldSearch(m.block, ENDPOINT),
     preshared_key |-> FieldSearch(m.block, PRESHARED_KEY)]

HasRequiredFields(m) ==
    FieldSearch(m.block, PUBLIC_KEY) # None /\ FieldSearch(m.block, ALLOWED_IPS) # None

\* parse_peers(content)
PeersOf(ms) == [k \in 1..Len(ms) |-> WgPeer(ms[k])]
parse_peers(content) == PeersOf(SelectSeq(PeerMatches(content, 1), HasRequiredFields))

\* faulty variant: the server's own address is not counted as used
UsedIpsOf_peers_only(peers) ==
    {IPv4Address(SplitHead(peers[k].allowed_ips, "/")) : k \in 1..Len(peers)} \ {Invalid}

\* get_used_ips(content), from the decoded peers
UsedIpsOf(peers) ==
    {SERVER_IP} \cup
    ({IPv4Address(SplitHead(peers[k].allowed_ips, "/")) : k \in 1..Len(peers)} \ {Invalid})

get_used_ips(content) == UsedIpsOf(parse_peers(content))

POOL_FIRST == 2
POOL_STOP == 255
PoolExhausted == <<-2>>

\* faulty variant: the scan takes the last free candidate instead of the first
NextFrom_last(used, first) ==
    IF \A i \in first..(POOL_STOP - 1) : PoolCandidate(i) \in used THEN PoolExhausted
    ELSE PoolCandidate(CHOOSE i \in first..(POOL_STOP - 1) :
                           /\ PoolCandidate(i) \notin used
                           /\ \A j \in (i + 1)..(POOL_STOP - 1) : PoolCandidate(j) \in used)

\* faulty variant: the scan stops one candidate early
NextFrom_short(used, first) ==
    IF \A i \in first..(POOL_STOP - 2) : PoolCandidate(i) \in used THEN PoolExhausted
    ELSE PoolCandidate(CHOOSE i \in first..(POOL_STOP - 2) :
                           /\ PoolCandidate(i) \notin used
                           /\ \A j \in first..(i - 1) : PoolCandidate(j) \in used)

\* get_next_available_ip: the first candidate of range(2, 255) not in use
NextFrom(used, first) ==
    IF \A i \in first..(POOL_STOP - 1) : PoolCandidate(i) \in used THEN PoolExhausted
    ELSE PoolCandidate(CHOOSE i \in first..(POOL_STOP - 1) :
                           /\ PoolCandidate(i) \notin used
                           /\ \A j \in first..(i - 1) : PoolCandidate(j) \in used)

get_next_available_ip(content) == NextFrom(get_used_ips(content), POOL_FIRST)

\* check_ip_conflict(ip, content): "ValueError" when the candidate does not parse,
\* otherwise "True" or "False"
IpConflict(target_ip, used_ips) ==
    IF target_ip = Invalid THEN "ValueError"
    ELSE IF target_ip \in used_ips THEN "True" ELSE "False"

\* faulty variant: the prefix length is not dropped before the candidate is parsed
check_ip_conflict_whole(ip, content) ==
    IpConflict(IPv4Address(ip), get_used_ips(content))

check_ip_conflict(ip, content) ==
    IpConflict(IPv4Address(SplitHead(ip, "/")), get_used_ips(content))

\* faulty variant: the name is compared with the wrong field
check_name_conflict_by_key(name, content) ==
    \E k \in 1..Len(parse_peers(content)) : parse_peers(content)[k].public_key = name

\* check_name_conflict(name, content)
NameIn(name, peers) == \E k \in 1..Len(peers) : peers[k].name = name
check_name_conflict(name, content) == NameIn(name, parse_peers(content))

Truthy(v) == v # None /\ v # <<>>

\* generate_peer_block: "\n".join(lines), the first line empty
generate_peer_block(name, public_key, assigned_ip, added_at, endpoint, preshared_key) ==
    <<NL, BANNER, NL, "# ClientName:", " ">> \o name
    \o <<NL, "# AddedAt:", " ">> \o added_at
    \o <<NL, BANNER, NL, PEER_HDR, NL, PUBLIC_KEY, " ", "=", " ">> \o public_key
    \o <<NL, ALLOWED_IPS, " ", "=", " ">> \o assigned_ip \o <<"/", "3", "2">>
    \o (IF Truthy(preshared_key)
        THEN <<NL, PRESHARED_KEY, " ", "=", " ">> \o preshared_key ELSE <<>>)
    \o (IF Truthy(endpoint) THEN <<NL, ENDPOINT, " ", "=", " ">> \o endpoint ELSE <<>>)

\* get_p2p_candidates(content)
IsCandidate(p) == p.endpoint # None
get_p2p_candidates(content) == SelectSeq(parse_peers(content), IsCandidate)


\* add_peer on the text read: the error raised ("none" when it wrote) and the
\* text of the file afterwards
AddChecked(content, name_conflict, ip_conflict, peer_block) ==
    IF name_conflict THEN [error |-> "NameConflict", content |-> content]
    ELSE IF ip_conflict = "ValueError" THEN [error |-> "InvalidAddress", content |-> content]
    ELSE IF ip_conflict = "True" THEN [error |-> "AddressConflict", content |-> content]
    ELSE [error |-> "none", content |-> RStrip(content) \o <<NL>> \o peer_block \o <<NL>>]

add_peer(content, name, public_key, assigned_ip, added_at, endpoint, preshared_key) ==
    AddChecked(content,
               check_name_conflict(name, content),
               check_ip_conflict(assigned_ip, content),
               generate_peer_block(name, public_key, assigned_ip, added_at,
                                   endpoint, preshared_key))

(***************************************************************************)
(* remove_peer: \n?# =+\n# ClientName: <name>\n# AddedAt: .+?\n# =+\n      *)
(* \[Peer\]\n.*?(?=\n# =+|\Z)  with MULTILINE | DOTALL, and pattern.subn   *)
(***************************************************************************)
\* The match whose banner is at j, for a search that began at from: the
\* optional line break before the banner belongs to the match.
RemoveMatch(t, j, from, p2) ==
    IF p2 = 0 THEN NoMatch
    ELSE [found |-> TRUE,
          start |-> IF j - 1 >= from /\ At(t, j - 1) = NL THEN j - 1 ELSE j,
          end |-> FindBlockEnd(t, p2 + Len(HEADER_TAIL))]

RemoveMatchHead(t, head, j, from) ==
    IF ~StartsAt(t, j, head) THEN NoMatch
    ELSE RemoveMatch(t, j, from, Find(t, HEADER_TAIL, j + Len(head) + 1))

\* faulty variant: the name is not followed by the end of its line
RemoveMatchAt_prefix(t, name, j, from) ==
    RemoveMatchHead(t, HEADER_START \o name, j, from)

RemoveMatchAt(t, name, j, from) ==
    RemoveMatchHead(t, HEADER_START \o name \o NAME_END, j, from)

\* pattern.search(t, from): the leftmost match that begins at from or later
RemoveSearch(t, name, from) ==
    IF \E j \in from..Len(t) : RemoveMatchAt(t, name, j, from).found
    THEN RemoveMatchAt(t, name,
                       CHOOSE j \in from..Len(t) :
                           /\ RemoveMatchAt(t, name, j, from).found
                           /\ \A r \in from..(j - 1) : ~RemoveMatchAt(t, name, r, from).found,
                       from)
    ELSE NoMatch

\* subn("", content) from position from on: the text kept and the number of matches
RECURSIVE RemoveFrom(_, _, _)
RemoveCut(t, from, m, rest) ==
    [text |-> SubSeq(t, from, m.start - 1) \o rest.text, count |-> rest.count + 1]
RemoveAt(t, name, from, m) ==
    IF m.found THEN RemoveCut(t, from, m, RemoveFrom(t, name, m.end))
    ELSE [text |-> SubSeq(t, from, Len(t)), count |-> 0]
RemoveFrom(t, name, from) == RemoveAt(t, name, from, RemoveSearch(t, name, from))

\* remove_peer on the text read: the value returned and the text of the file afterwards
RemoveResult(content, r) ==
    IF r.count = 0 THEN [removed |-> FALSE, content |-> content]
    ELSE [removed |-> TRUE, content |-> r.text]

remove_peer(content, name) == RemoveResult(content, RemoveFrom(content, name, 1))

(***************************************************************************)
(* The backing file: Absent, or its text.  read_config raises              *)
(* FileNotFoundError on an absent file.                                    *)
(***************************************************************************)
Exists(st) == st # Absent

(***************************************************************************)
(* get_runtime_status: what subprocess.run(["wg", "show", "wg0", "dump"])  *)
(* did is an input: it raised (the kind names the exception), or it        *)
(* returned the text of the standard output.                               *)
(***************************************************************************)
TAB == "\t"

\* int(x): the text stripped, an optional sign, then digits; the value is kept
\* as its decimal text, "ValueError" stands for the exception
IntDigits(g) == IF g # <<>> /\ g[1] \in {"+", "-"} THEN Tail(g) ELSE g

IntOk(x) ==
    /\ IntDigits(Strip(x)) # <<>>
    /\ \A i \in 1..Len(IntDigits(Strip(x))) : IntDigits(Strip(x))[i] \in Digits

IntSigned(g, n) == IF g[1] = "-" /\ n # 0 THEN <<"-">> \o DecStr(n) ELSE DecStr(n)

IntText(x) == IntSigned(Strip(x), DecVal(IntDigits(Strip(x))))

\* the lines after the first, each split at its tabs, those of 8 parts or more
DumpLines(stdout) ==
    SelectSeq([k \in 1..(Len(Split(Strip(stdout), NL)) - 1) |->
                   Split(Split(Strip(stdout), NL)[k + 1], TAB)],
              LAMBDA parts : Len(parts) >= 8)

\* a line whose numbers int() rejects
LineRaises(parts) ==
    \/ (parts[5] # <<"0">> /\ ~IntOk(parts[5]))
    \/ ~IntOk(parts[6])
    \/ ~IntOk(parts[7])

\* faulty variant: a handshake of 0 is kept as the number 0
StatusOfLine_zero(parts) ==
    [latest_handshake |-> IntText(parts[5]),
     transfer_rx |-> IntText(parts[6]),
     transfer_tx |-> IntText(parts[7])]

StatusOfLine(parts) ==
    [latest_handshake |-> IF parts[5] # <<"0">> THEN IntText(parts[5]) ELSE None,
     transfer_rx |-> IntText(parts[6]),
     transfer_tx |-> IntText(parts[7])]

\* the index of the last line of the public key k
LastLineOf(lines, k) ==
    CHOOSE i \in 1..Len(lines) :
        /\ lines[i][1] = k
        /\ \A j \in (i + 1)..Len(lines) : lines[j][1] # k

\* status[public_key] = {...}: a later line of a key replaces an earlier one
StatusOf(lines) ==
    IF \E i \in 1..Len(lines) : LineRaises(lines[i])
    THEN [raised |-> "ValueError", status |-> <<>>]
    ELSE [raised |-> "none",
          status |-> [k \in {lines[i][1] : i \in 1..Len(lines)} |->
                          StatusOfLine(lines[LastLineOf(lines, k)])]]

get_runtime_status(run) ==
    IF run.kind \in {"CalledProcessError", "FileNotFoundError"}
    THEN [raised |-> "none", status |-> <<>>]
    ELSE IF run.kind # "stdout" THEN [raised |-> run.kind, status |-> <<>>]
    ELSE StatusOf(DumpLines(run.stdout))

\* the peer with its three runtime fields, None where the key has no status
NoStatus == [latest_handshake |-> None, transfer_rx |-> None, transfer_tx |-> None]

StatusFor(p, status) ==
    IF p.public_key \in DOMAIN status THEN status[p.public_key] ELSE NoStatus

\* get_peers_with_status, the peers decoded and the status given
MergeStatus(peers, status) ==
    [k \in 1..Len(peers) |-> [peer |-> peers[k], runtime |-> StatusFor(peers[k], status)]]

(***************************************************************************)
(* InternalDNSServer (dns_server.py)                                       *)
(***************************************************************************)
QTYPE_A == 1
DOMAIN_SUFFIX == <<".", "vpn", ".", "example", ".", "com">>
ROOT_ADDRESS == <<"1", "0", ".", "8", ".", "0", ".", "1">>
ALIASES == {<<"server">>, <<"gateway">>}

\* the peers the resolver sees: none when the file is absent
ResolverPeers(st) == IF Exists(st) THEN parse_peers(st) ELSE <<>>

\* the index of the last peer whose lowered name is n
LastNamed(peers, n) ==
    CHOOSE k \in 1..Len(peers) :
        /\ Lower(peers[k].name) = n
        /\ \A j \in (k + 1)..Len(peers) : Lower(peers[j].name) # n

\* faulty variant: a peer named as an alias replaces the alias
MappingOf_peers_last(peers) ==
    [n \in {Lower(peers[k].name) : k \in 1..Len(peers)} \cup ALIASES |->
        IF \E k \in 1..Len(peers) : Lower(peers[k].name) = n
        THEN SplitHead(peers[LastNamed(peers, n)].allowed_ips, "/")
        ELSE ROOT_ADDRESS]

\* get_name_to_ip_mapping: a later peer with the same lowered name replaces an
\* earlier one, and the two aliases replace any peer of that name
MappingOf(peers) ==
    [n \in {Lower(peers[k].name) : k \in 1..Len(peers)} \cup ALIASES |->
        IF n \in ALIASES THEN ROOT_ADDRESS
        ELSE SplitHead(peers[LastNamed(peers, n)].allowed_ips, "/")]

get_name_to_ip_mapping(st) == MappingOf(ResolverPeers(st))

RECURSIVE RStripDots(_)
RStripDots(s) ==
    IF s # <<>> /\ s[Len(s)] = "." THEN RStripDots(SubSeq(s, 1, Len(s) - 1)) ELSE s

EndsWith(s, suffix) ==
    Len(s) >= Len(suffix) /\ SubSeq(s, Len(s) - Len(suffix) + 1, Len(s)) = suffix

\* resolve_query(qname, qtype): the address, or None
Lookup(mapping, device_name) ==
    IF device_name \in DOMAIN mapping THEN mapping[device_name] ELSE None

\* faulty variant: the query type is not looked at
ResolveName_any_type(st, q, qtype) ==
    IF ~EndsWith(q, DOMAIN_SUFFIX) THEN None
    ELSE Lookup(get_name_to_ip_mapping(st), SubSeq(q, 1, Len(q) - Len(DOMAIN_SUFFIX)))

ResolveName(st, q, qtype) ==
    IF qtype # QTYPE_A THEN None
    ELSE IF ~EndsWith(q, DOMAIN_SUFFIX) THEN None
    ELSE Lookup(get_name_to_ip_mapping(st), SubSeq(q, 1, Len(q) - Len(DOMAIN_SUFFIX)))

resolve_query(st, qname, qtype) == ResolveName(st, RStripDots(Lower(qname)), qtype)

\* dnslib A(ip): the four numbers of tuple(map(int, ip.rstrip(".").split("."))),
\* Invalid when int() or the range check of the record data raises
AOctetOk(o) ==
    /\ o # <<>>
    /\ \A i \in 1..Len(o) : o[i] \in Digits
    /\ DecVal(o) <= 255

ARecordParts(parts) ==
    IF Len(parts) = 4 /\ \A i \in 1..4 : AOctetOk(parts[i])
    THEN <<DecVal(parts[1]), DecVal(parts[2]), DecVal(parts[3]), DecVal(parts[4])>>
    ELSE Invalid

ARecord(ip) == ARecordParts(Split(RStripDots(ip), "."))

RCODE_NXDOMAIN == 3
ANSWER_TTL == 60

\* a datagram: bytes that DNSRecord.parse rejects, or a query with one question
Garbage(addr) == [decodes |-> FALSE, id |-> 0, qname |-> None, qtype |-> 0, addr |-> addr]
Query(id, qname, qtype, addr) ==
    [decodes |-> TRUE, id |-> id, qname |-> qname, qtype |-> qtype, addr |-> addr]

\* str(request.q.qname): the labels, each followed by a dot
QNameText(qname) == qname \o <<".">>

\* what handle_request returns: no bytes, a packed reply, or the exception it raises
NoBytes == [kind |-> "empty"]
Raised == [kind |-> "raised"]
Reply(d, rcode, rr) == [kind |-> "reply", id |-> d.id, rcode |-> rcode, rr |-> rr]

AnswerWith(d, rdata) ==
    IF rdata = Invalid THEN Raised
    ELSE Reply(d, 0, <<[rname |-> d.qname, rtype |-> QTYPE_A, ttl |-> ANSWER_TTL,
                        rdata |-> rdata]>>)

\* the reply for the address the resolver returned: "if ip:" is false for None
\* and for the empty text
ReplyFor(d, ip) ==
    IF ip = None \/ ip = <<>> THEN Reply(d, RCODE_NXDOMAIN, <<>>)
    ELSE AnswerWith(d, ARecord(ip))

handle_request(st, d) ==
    IF ~d.decodes THEN NoBytes
    ELSE ReplyFor(d, resolve_query(st, QNameText(d.qname), d.qtype))

(***************************************************************************)
(* The HTTP operations (routers/wg.py): the response of each, and for the  *)
(* two mutations the text of the file afterwards                           *)
(***************************************************************************)
PeerInfo(p) ==
    [name |-> p.name, public_key |-> p.public_key, allowed_ips |-> p.allowed_ips,
     added_at |-> p.added_at, endpoint |-> p.endpoint,
     latest_handshake |-> None, transfer_rx |-> None, transfer_tx |-> None]

\* the PeerInfo of list_peers: the runtime fields are the merged ones
StatusInfo(m) ==
    [PeerInfo(m.peer) EXCEPT !.latest_handshake = m.runtime.latest_handshake,
                             !.transfer_rx = m.runtime.transfer_rx,
                             !.transfer_tx = m.runtime.transfer_tx]

StatusInfos(merged) == [k \in 1..Len(merged) |-> StatusInfo(merged[k])]

PeerInfos(peers) == [k \in 1..Len(peers) |-> PeerInfo(peers[k])]

Response(status, success, error, value) ==
    [status |-> status, success |-> success, error |-> error, value |-> value]

\* WgParser.get_server_public_key: wg show wg0 public-key, its output stripped;
\* the placeholder when the command is not installed or exits with a status
\* other than zero, and any other exception is not caught
SERVER_KEY_PLACEHOLDER == <<"<SERVER_PUBLIC_KEY>">>

get_server_public_key(run) ==
    IF run.kind = "stdout" THEN [raised |-> "none", key |-> Strip(run.stdout)]
    ELSE IF run.kind \in {"CalledProcessError", "FileNotFoundError"}
    THEN [raised |-> "none", key |-> SERVER_KEY_PLACEHOLDER]
    ELSE [raised |-> run.kind, key |-> None]

\* GET /config/template: the address is found first, an exhausted pool is
\* answered before the key command is run, and what that command raises
\* uncaught is the answer of the operation
TemplateWith(assigned_ip, key) ==
    IF key.raised # "none" THEN Response(500, FALSE, key.raised, None)
    ELSE Response(200, TRUE, "none", assigned_ip)

TemplateFor(next_ip, run) ==
    IF next_ip = PoolExhausted THEN Response(503, FALSE, "PoolExhausted", None)
    ELSE TemplateWith(IpStr(next_ip), get_server_public_key(run))

get_config_template(st, run) ==
    IF ~Exists(st)
    THEN TemplateWith(<<"1", "0", ".", "8", ".", "0", ".", "2">>, get_server_public_key(run))
    ELSE TemplateFor(get_next_available_ip(st), run)

\* GET /peer/list, the file read: an exception of get_runtime_status is not caught
ListResponse(peers, runtime) ==
    IF runtime.raised # "none" THEN Response(500, FALSE, runtime.raised, <<>>)
    ELSE Response(200, TRUE, "none", StatusInfos(MergeStatus(peers, runtime.status)))

\* GET /peer/list: the file is read before the status command is run
list_peers(st, run) ==
    IF ~Exists(st) THEN Response(200, TRUE, "none", <<>>)
    ELSE ListResponse(parse_peers(st), get_runtime_status(run))

\* GET /peer/p2p_candidates
p2p_candidates(st) ==
    Response(200, TRUE, "none", IF Exists(st) THEN PeerInfos(get_p2p_candidates(st)) ELSE <<>>)

\* faulty variant: a missing file is taken for an empty one and created
add_peer_response_creates(st, req) ==
    [status |-> 200, success |-> TRUE, error |-> "none",
     store |-> add_peer(IF Exists(st) THEN st ELSE <<>>, req.name, req.public_key,
                        req.assigned_ip, req.added_at, req.endpoint,
                        req.preshared_key).content]

\* POST /peer/add: the response, and the text of the file afterwards
AddResponse(r) ==
    [status |-> 200, success |-> r.error = "none", error |-> r.error, store |-> r.content]

add_peer_response(st, req) ==
    IF ~Exists(st)
    THEN [status |-> 503, success |-> FALSE, error |-> "StoreNotFound", store |-> st]
    ELSE AddResponse(add_peer(st, req.name, req.public_key, req.assigned_ip, req.added_at,
                              req.endpoint, req.preshared_key))

\* POST /peer/del: the response, and the text of the file afterwards
DeleteResponse(st, r) ==
    IF ~r.removed
    THEN [status |-> 200, success |-> FALSE, error |-> "NotFound", store |-> st]
    ELSE [status |-> 200, success |-> TRUE, error |-> "none", store |-> r.content]

delete_peer_response(st, name) ==
    IF ~Exists(st)
    THEN [status |-> 503, success |-> FALSE, error |-> "StoreNotFound", store |-> st]
    ELSE DeleteResponse(st, remove_peer(st, name))

(***************************************************************************)
(* Inputs                                                                  *)
(***************************************************************************)
MaxBlocks == 2

INTERFACE_ONLY ==
    <<"[Interface]", NL, "PrivateKey = SERVER_PRIVATE_KEY", NL,
      "Address = 10.8.0.1/24", NL, "ListenPort = 51820", NL>>

\* SAMPLE_WG_CONFIG of tests/test_api.py
SAMPLE_WG_CONFIG ==
    INTERFACE_ONLY \o
    <<NL, BANNER, NL, "# ClientName:", " ", "test-device", NL,
      "# AddedAt:", " ", "2026-01-27", NL, BANNER, NL, PEER_HDR, NL,
      PUBLIC_KEY, " ", "=", " ", "TEST_PUBLIC_KEY", NL,
      ALLOWED_IPS, " ", "=", " ", "1", "0", ".", "8", ".", "0", ".", "5", "/", "3", "2", NL>>

\* a file edited by hand: its one peer has an address that is no IPv4 address
HAND_EDITED ==
    INTERFACE_ONLY \o
    <<NL, BANNER, NL, "# ClientName:", " ", "legacy-device", NL,
      "# AddedAt:", " ", "2026-01-27", NL, BANNER, NL, PEER_HDR, NL,
      PUBLIC_KEY, " ", "=", " ", "LEGACY_PUBLIC_KEY", NL,
      ALLOWED_IPS, " ", "=", " ", "fd00::5", "/", "1", "2", "8", NL>>

\* the file after add_peer of a peer named Server and of one named gateway
ALIAS_NAMED ==
    RStrip(INTERFACE_ONLY) \o <<NL>>
    \o generate_peer_block(<<"Server">>, <<"SERVER_PEER_KEY">>,
                           <<"1", "0", ".", "8", ".", "0", ".", "8">>, <<"2026-01-27">>,
                           None, None)
    \o <<NL>>
    \o generate_peer_block(<<"gateway">>, <<"GATEWAY_PEER_KEY">>,
                           <<"1", "0", ".", "8", ".", "0", ".", "9">>, <<"2026-01-27">>,
                           None, None)
    \o <<NL>>

InitialStores == {Absent, INTERFACE_ONLY, SAMPLE_WG_CONFIG, HAND_EDITED, ALIAS_NAMED}

Ip2 == <<"1", "0", ".", "8", ".", "0", ".", "2">>
Ip5 == <<"1", "0", ".", "8", ".", "0", ".", "5">>
TODAY == <<"2026-01-28">>

Req(name, public_key, assigned_ip, endpoint, preshared_key) ==
    [name |-> name, public_key |-> public_key, assigned_ip |-> assigned_ip,
     added_at |-> TODAY, endpoint |-> endpoint, preshared_key |-> preshared_key]

NoReq == Req(None, None, None, None, None)

\* the add requests: plain ones, and ones whose text fields are blank-padded,
\* empty, carry a prefix length, or name the root or no address
AddRequests ==
    {Req(n, <<"NEW_PUBLIC_KEY">>, ip, None, None) :
        n \in {<<"test-device">>, <<"new-device">>}, ip \in {Ip2, Ip5}}
    \cup {Req(<<"new-device">>, <<"NEW_PUBLIC_KEY">>, Ip2,
              <<"nas.myhome.com:51820">>, <<"PRESHARED_KEY_VALUE">>),
          Req(<<"test-device", " ">>, <<"NEW_PUBLIC_KEY">>, Ip2, None, None),
          Req(<<>>, <<"NEW_PUBLIC_KEY">>, Ip2, None, None),
          Req(<<"new-device">>, <<>>, Ip2, <<>>, <<" ">>),
          Req(<<"new-device">>, <<"NEW_PUBLIC_KEY">>, Ip2 \o <<"/", "2", "4">>, None, None),
          Req(<<"new-device">>, <<"NEW_PUBLIC_KEY">>, ROOT_ADDRESS, None, None),
          Req(<<"new-device">>, <<"NEW_PUBLIC_KEY">>,
              <<"1", "0", ".", "8", ".", "0", ".", "2", "5", "6">>, None, None)}

DeleteNames ==
    {<<"test-device">>, <<"new-device">>, <<"test-device", " ">>, <<"nonexistent">>}

QueryNames ==
    {<<"test-device">> \o DOMAIN_SUFFIX \o <<".">>,
     <<"new-device">> \o DOMAIN_SUFFIX,
     <<"test-device">> \o DOMAIN_SUFFIX,
     <<"server">> \o DOMAIN_SUFFIX,
     <<"Gateway">> \o DOMAIN_SUFFIX \o <<".">>,
     <<"test-device", ".", "other", ".", "com">>}

\* the query types: A, and AAAA as one that is not A
QueryTypes == {QTYPE_A, 28}

\* the questions asked: every name with type A, the names of a peer and of an
\* alias with the other type
Questions ==
    (QueryNames \X {QTYPE_A})
    \cup ({<<"test-device">> \o DOMAIN_SUFFIX, <<"server">> \o DOMAIN_SUFFIX}
          \X (QueryTypes \ {QTYPE_A}))

CheckNames == {<<"test-device">>, <<"nonexistent">>}

\* the candidates of check_ip_conflict: in use, free, the root, with a prefix
\* length, and three that are no IPv4 address
ConflictCandidates ==
    {Ip2, Ip5, ROOT_ADDRESS, Ip5 \o <<"/", "2", "4">>,
     <<"1", "0", ".", "8", ".", "0", ".", "2", "5", "6">>,
     <<"1", "0", ".", "8", ".", "0", ".", "0", "5">>,
     <<"fd00::5">>}

\* the callers that may run add at the same time
CallIds == {1, 2}

\* what running the status command did: it is not installed, it exits with a
\* status other than zero, it may not be executed, or it printed a text
RunRaised(kind) == [kind |-> kind, stdout |-> <<>>]
RunPrinted(stdout) == [kind |-> "stdout", stdout |-> stdout]

INTERFACE_LINE == <<"SERVER_PRIVATE_KEY", TAB, "SERVER_PUBLIC_KEY", TAB, "51820", TAB, "off", NL>>

DumpLine(key, handshake, rx, tx) ==
    <<key, TAB, "(none)", TAB, "(none)", TAB, "10.8.0.5/32", TAB>>
    \o handshake \o <<TAB>> \o rx \o <<TAB>> \o tx \o <<TAB, "off", NL>>

StatusRuns ==
    {RunRaised("FileNotFoundError"),
     RunRaised("CalledProcessError"),
     RunRaised("PermissionError"),
     RunPrinted(INTERFACE_LINE
                \o DumpLine("TEST_PUBLIC_KEY", <<"9">>, <<"1">>, <<"1">>)
                \o DumpLine("NEW_PUBLIC_KEY", <<"0">>, <<" ", "0", "7">>, <<"+", "2">>)
                \o <<"TEST_PUBLIC_KEY", TAB, "(none)", NL>>
                \o DumpLine("TEST_PUBLIC_KEY", <<"5">>, <<"0">>, <<"-", "1">>)),
     RunPrinted(INTERFACE_LINE
                \o DumpLine("TEST_PUBLIC_KEY", <<"5">>, <<"abc">>, <<"2">>))}

\* what running wg show wg0 public-key did
KeyRuns ==
    {RunRaised("FileNotFoundError"),
     RunRaised("CalledProcessError"),
     RunRaised("PermissionError"),
     RunPrinted(<<"SERVER_PUBLIC_KEY", NL>>)}

NumBlocks(st) == Cardinality({i \in 1..Len(st) : st[i] = "# ClientName:"})

(***************************************************************************)
(* The state machine: one action per operation of a handler, each run to   *)
(* its end before the next handler begins, but for the handlers that write *)
(* the file: write_config opens the file, which empties it, and writes the *)
(* text afterwards; then the handler calls reload_wg when the setting is   *)
(* on, and then it answers.  The DNS service, a thread of its own, can     *)
(* answer a query between any two of these steps.  last is the step just   *)
(* performed: its request, its response, whether reload_wg was called, and *)
(* the file as it was before; calls[1].reload is what reload_wg came to in *)
(* the handler that is running.                                            *)
(***************************************************************************)
Done(op, req, resp, reload, value, pre) ==
    [op |-> op, req |-> req, status |-> resp.status, success |-> resp.success,
     error |-> resp.error, reload |-> reload, value |-> value, pre |-> pre]

\* no add call is in progress
IdleCall == [pc |-> "idle", req |-> NoReq, content |-> Absent, epoch |-> 0,
             error |-> "none", reload |-> "none"]

NoCalls ==
    /\ calls = [c \in CallIds |-> IdleCall]
    /\ written = <<>>

\* InternalDNSServer.__init__: no socket, not running, no thread
DnsConstructed ==
    /\ running = FALSE
    /\ socket = "None"
    /\ thread = "None"
    /\ stop_called = FALSE

Init ==
    /\ store \in InitialStores
    /\ enable_wg_reload \in BOOLEAN
    /\ last = Done("init", NoReq, [status |-> 200, success |-> TRUE, error |-> "none"],
                   FALSE, None, store)
    /\ NoCalls
    /\ DnsConstructed

\* no step of a handler answers but its last
NoAnswer == [status |-> 0, success |-> FALSE, error |-> "none"]

\* write_config, the file opened for writing: open(path, "w") has emptied the
\* file and the text is not written yet.  calls[1] is the handler that has
\* come this far, with its request and the text it read.
Opened(pc, req) ==
    /\ store' = <<>>
    /\ calls' = [calls EXCEPT ![1] = [pc |-> pc, req |-> req, content |-> store,
                                      epoch |-> 0, error |-> "none", reload |-> "none"]]
    /\ last' = Done("open", req, NoAnswer, FALSE, None, store)
    /\ UNCHANGED <<written, enable_wg_reload, dns_vars>>

\* the handlers are coroutines that never wait: one runs at a time
NoHandler == calls[1].pc = "idle"

\* POST /peer/add up to the open of write_config, or to its end when nothing
\* is written
AddPeerDone(req, resp) ==
    /\ NoHandler
    /\ IF resp.success
       THEN Opened("add opened", req)
       ELSE /\ store' = resp.store
            /\ last' = Done("add", req, resp, FALSE, None, store)
            /\ UNCHANGED <<enable_wg_reload, race_vars, dns_vars>>

AddPeer ==
    \E req \in AddRequests :
        /\ NumBlocks(store) < MaxBlocks
        /\ AddPeerDone(req, add_peer_response(store, req))

\* POST /peer/del, likewise
DeletePeerDone(name, resp) ==
    /\ NoHandler
    /\ IF resp.success
       THEN Opened("del opened", [NoReq EXCEPT !.name = name])
       ELSE /\ store' = resp.store
            /\ last' = Done("del", [NoReq EXCEPT !.name = name], resp, FALSE, None, store)
            /\ UNCHANGED <<enable_wg_reload, race_vars, dns_vars>>

DeletePeer ==
    \E name \in DeleteNames : DeletePeerDone(name, delete_peer_response(store, name))

(***************************************************************************)
(* reload_wg() runs "wg-quick strip wg0", writes its output to             *)
(* /tmp/wg0.strip, runs "wg syncconf wg0 /tmp/wg0.strip" and removes the   *)
(* file; it catches CalledProcessError and FileNotFoundError.  A run of it *)
(* is the outcome of each of its steps.  last.reload tells whether         *)
(* reload_wg was called, last.value what it returned.                      *)
(***************************************************************************)
ReloadRun(strip, write_text, syncconf, remove) ==
    [strip |-> strip, write_text |-> write_text, syncconf |-> syncconf, remove |-> remove]

\* all steps pass; the commands fail, or there is no shell, or wg-quick prints
\* bytes that are no text; the file cannot be written; the file is gone when it
\* is to be removed
ReloadRuns ==
    {ReloadRun("ok", "ok", "ok", "ok"),
     ReloadRun("CalledProcessError", "ok", "ok", "ok"),
     ReloadRun("FileNotFoundError", "ok", "ok", "ok"),
     ReloadRun("UnicodeDecodeError", "ok", "ok", "ok"),
     ReloadRun("ok", "PermissionError", "ok", "ok"),
     ReloadRun("ok", "ok", "CalledProcessError", "ok"),
     ReloadRun("ok", "ok", "ok", "FileNotFoundError")}

Caught == {"CalledProcessError", "FileNotFoundError"}

\* reload_wg(): "True", "False", or the exception it lets through
FirstFailure(steps) ==
    IF \A k \in 1..Len(steps) : steps[k] = "ok" THEN "ok"
    ELSE steps[CHOOSE k \in 1..Len(steps) :
                   steps[k] # "ok" /\ \A j \in 1..(k - 1) : steps[j] = "ok"]

ReloadOutcome(failure) ==
    IF failure = "ok" THEN "True" ELSE IF failure \in Caught THEN "False" ELSE failure

reload_wg(run) ==
    ReloadOutcome(FirstFailure(<<run.strip, run.write_text, run.syncconf, run.remove>>))

\* the response of the handler: what reload_wg returns is dropped, an
\* exception it lets through ends the request with status 500
AfterReload(resp, called, outcome) ==
    IF called /\ outcome \notin {"True", "False"}
    THEN [resp EXCEPT !.status = 500, !.success = FALSE, !.error = outcome]
    ELSE resp

\* the rest of write_config: the text is written and the file closed; the
\* handler has not called reload_wg and has not answered
Written(pc, resp) ==
    /\ store' = WriteAtStart(resp.store, store)
    /\ calls' = [calls EXCEPT ![1].pc = pc]
    /\ last' = Done("write", calls[1].req, NoAnswer, FALSE, None, calls[1].content)
    /\ UNCHANGED <<written, enable_wg_reload, dns_vars>>

WriteConfig ==
    \/ /\ calls[1].pc = "add opened"
       /\ Written("add written", add_peer_response(calls[1].content, calls[1].req))
    \/ /\ calls[1].pc = "del opened"
       /\ Written("del written", delete_peer_response(calls[1].content, calls[1].req.name))

\* "if settings.enable_wg_reload: reload_wg()": the call has come to its end,
\* with a value or with an exception, and the handler has not answered
ReloadCalled(outcome) ==
    /\ calls' = [calls EXCEPT ![1].reload = outcome]
    /\ last' = Done("reload", calls[1].req, NoAnswer, TRUE, <<outcome>>, calls[1].content)
    /\ UNCHANGED <<store, written, enable_wg_reload, dns_vars>>

ReloadWg ==
    /\ enable_wg_reload
    /\ calls[1].pc \in {"add written", "del written"}
    /\ calls[1].reload = "none"
    /\ \E run \in ReloadRuns : ReloadCalled(reload_wg(run))

\* the end of the handler: its response, or status 500 for the exception
Answered(op, resp, called, outcome) ==
    /\ last' = Done(op, calls[1].req, AfterReload(resp, called, outcome), called,
                    IF called THEN <<outcome>> ELSE None, calls[1].content)
    /\ calls' = [calls EXCEPT ![1] = IdleCall]
    /\ UNCHANGED <<store, written, enable_wg_reload, dns_vars>>

HandlerReturns ==
    /\ enable_wg_reload => calls[1].reload # "none"
    /\ \/ /\ calls[1].pc = "add written"
          /\ Answered("add", add_peer_response(calls[1].content, calls[1].req),
                      enable_wg_reload, calls[1].reload)
       \/ /\ calls[1].pc = "del written"
          /\ Answered("del", delete_peer_response(calls[1].content, calls[1].req.name),
                      enable_wg_reload, calls[1].reload)

\* faulty variant: a query writes a note of what it answered into the file
QueryDone_saves(op, req, resp) ==
    /\ last' = Done(op, req, resp, FALSE, resp.value, store)
    /\ store' = IF Exists(store) /\ store[Len(store)] # "# queried"
                THEN store \o <<"# queried">> ELSE store
    /\ UNCHANGED <<enable_wg_reload, race_vars, dns_vars>>

QueryDone(op, req, resp) ==
    /\ last' = Done(op, req, resp, FALSE, resp.value, store)
    /\ UNCHANGED <<store, enable_wg_reload, race_vars, dns_vars>>

\* a query of a handler, or of the parser for a handler
HandlerDone(op, req, resp) == NoHandler /\ QueryDone(op, req, resp)

GetConfigTemplate ==
    \E run \in KeyRuns : HandlerDone("template", run, get_config_template(store, run))

ListPeers ==
    \E run \in StatusRuns : HandlerDone("list", run, list_peers(store, run))

GetP2PCandidates == HandlerDone("p2p", NoReq, p2p_candidates(store))

Answer(ip) == Response(200, ip # None, "none", ip)

\* the DNS service answers whether a handler is running or not
ResolveQuery ==
    \E q \in Questions :
        QueryDone("resolve", [NoReq EXCEPT !.name = q[1], !.assigned_ip = <<q[2]>>],
                  Answer(resolve_query(store, q[1], q[2])))

\* WgParser.check_ip_conflict(ip) on the file: the candidate is parsed before
\* the file is read
Checked(r) ==
    IF r = "ValueError" THEN Response(0, FALSE, "InvalidAddress", None)
    ELSE IF r = "FileNotFoundError" THEN Response(0, FALSE, "StoreNotFound", None)
    ELSE Response(0, TRUE, "none", <<r>>)

check_ip_conflict_file(st, ip) ==
    IF IPv4Address(SplitHead(ip, "/")) = Invalid THEN "ValueError"
    ELSE IF ~Exists(st) THEN "FileNotFoundError"
    ELSE check_ip_conflict(ip, st)

CheckIpConflict ==
    \E ip \in ConflictCandidates :
        HandlerDone("check_ip", [NoReq EXCEPT !.assigned_ip = ip],
                  Checked(check_ip_conflict_file(store, ip)))

\* WgParser.check_name_conflict(name) on the file
check_name_conflict_file(st, name) ==
    IF ~Exists(st) THEN "FileNotFoundError"
    ELSE IF check_name_conflict(name, st) THEN "True" ELSE "False"

CheckNameConflict ==
    \E name \in CheckNames :
        HandlerDone("check_name", [NoReq EXCEPT !.name = name],
                  Checked(check_name_conflict_file(store, name)))

Next ==
    \/ AddPeer
    \/ DeletePeer
    \/ WriteConfig
    \/ ReloadWg
    \/ HandlerReturns
    \/ GetConfigTemplate
    \/ ListPeers
    \/ GetP2PCandidates
    \/ ResolveQuery
    \/ CheckIpConflict
    \/ CheckNameConflict

Spec == Init /\ [][Next]_vars

(***************************************************************************)
(* The same operations on a file that holds a peer for every address of    *)
(* the pool but the ones of PoolHoles, as add_peer writes them one after   *)
(* the other: the peers of the holes are added and removed.                *)
(***************************************************************************)
PoolHoles == {2, 128, 254}

PoolName(i) == <<"peer-">> \o DecStr(i)

PoolReq(i) == Req(PoolName(i), <<"POOL_PUBLIC_KEY">>, IpStr(PoolCandidate(i)), None, None)

PoolBlock(i) ==
    generate_peer_block(PoolName(i), <<"POOL_PUBLIC_KEY">>, IpStr(PoolCandidate(i)),
                        <<"2026-01-27">>, None, None) \o <<NL>>

\* the blocks of the addresses lo..hi that are no holes, in ascending order
RECURSIVE PoolBlocks(_, _)
PoolBlocks(lo, hi) ==
    IF lo > hi THEN <<>>
    ELSE IF lo = hi THEN (IF lo \in PoolHoles THEN <<>> ELSE PoolBlock(lo))
    ELSE PoolBlocks(lo, (lo + hi) \div 2) \o PoolBlocks((lo + hi) \div 2 + 1, hi)

\* content.rstrip() + "\n" + peer_block + "\n", one add after the other
PoolDoc == RStrip(INTERFACE_ONLY) \o <<NL>> \o PoolBlocks(POOL_FIRST, POOL_STOP - 1)

\* enable_wg_reload has its default
PoolInit ==
    /\ store = PoolDoc
    /\ enable_wg_reload = FALSE
    /\ last = Done("init", NoReq, [status |-> 200, success |-> TRUE, error |-> "none"],
                   FALSE, None, store)
    /\ NoCalls
    /\ DnsConstructed

PoolAddPeer ==
    \E i \in PoolHoles : AddPeerDone(PoolReq(i), add_peer_response(store, PoolReq(i)))

PoolDeletePeer ==
    \E i \in PoolHoles : DeletePeerDone(PoolName(i), delete_peer_response(store, PoolName(i)))

PoolNext ==
    \/ PoolAddPeer
    \/ PoolDeletePeer
    \/ WriteConfig
    \/ HandlerReturns
    \/ GetConfigTemplate

PoolSpec == PoolInit /\ [][PoolNext]_vars

(***************************************************************************)
(* add_peer called by two callers at once.  A call is three steps: it      *)
(* reads the file (read_config); it checks the text it read and, the       *)
(* checks passed, opens the file for writing, which empties it; and it     *)
(* writes the text read with its block appended, from the start of the     *)
(* file as it is by then, and closes the file.  Nothing orders the steps   *)
(* of one call against the steps of the other.  calls[c].epoch is the      *)
(* number of writes that had happened when call c read; a call begins      *)
(* while fewer than MaxWrites writes have happened.                        *)
(***************************************************************************)
MaxWrites == 1

Ip3 == <<"1", "0", ".", "8", ".", "0", ".", "3">>

\* two requests that differ in name and address, one with a stored name, one
\* with a stored address, and one with the name of the first
RaceRequests ==
    {Req(<<"new-device">>, <<"NEW_PUBLIC_KEY">>, Ip2, None, None),
     Req(<<"other-device">>, <<"OTHER_PUBLIC_KEY">>, Ip3, None, None),
     Req(<<"test-device">>, <<"OTHER_PUBLIC_KEY">>, Ip3, None, None),
     Req(<<"other-device">>, <<"OTHER_PUBLIC_KEY">>, Ip5, None, None),
     Req(<<"new-device">>, <<"OTHER_PUBLIC_KEY">>, Ip3, None, None)}

RaceStores == {Absent, INTERFACE_ONLY, SAMPLE_WG_CONFIG}

RaceInit ==
    /\ store \in RaceStores
    /\ enable_wg_reload = FALSE
    /\ last = Done("init", NoReq, [status |-> 200, success |-> TRUE, error |-> "none"],
                   FALSE, None, store)
    /\ NoCalls
    /\ DnsConstructed

\* content = self.read_config(): the call ends here when there is no file
AddRead(c) ==
    \E req \in RaceRequests :
        /\ calls[c].pc \in {"idle", "done"}
        /\ Len(written) < MaxWrites
        /\ IF Exists(store)
           THEN /\ calls' = [calls EXCEPT ![c] = [pc |-> "read", req |-> req, content |-> store,
                                                   epoch |-> Len(written),
                                                   error |-> "none", reload |-> "none"]]
                /\ UNCHANGED last
           ELSE /\ calls' = [calls EXCEPT ![c] = [pc |-> "done", req |-> req, content |-> store,
                                                   epoch |-> Len(written),
                                                   error |-> "StoreNotFound", reload |-> "none"]]
                /\ last' = Done("add", req, add_peer_response(store, req), FALSE, None, store)
        /\ UNCHANGED <<store, written, enable_wg_reload, dns_vars>>

\* faulty variant: the call reads the file again when it writes
content_read_fresh(c) == store

\* the text call c works on: the one it read when it began
content_read(c) == calls[c].content

\* the checks on the text read and, passed, the open of write_config, which
\* empties the file
AddOpenDone(c, content, r) ==
    /\ IF r.error = "none"
       THEN /\ calls' = [calls EXCEPT ![c].pc = "opened"]
            /\ store' = <<>>
            /\ UNCHANGED last
       ELSE /\ calls' = [calls EXCEPT ![c].pc = "done", ![c].error = r.error]
            /\ last' = Done("add", calls[c].req, AddResponse(r), FALSE, None, content)
            /\ UNCHANGED store
    /\ UNCHANGED <<written, enable_wg_reload, dns_vars>>

\* new_content written and the file closed
AddWriteDone(c, content, r) ==
    /\ calls' = [calls EXCEPT ![c].pc = "done", ![c].error = r.error]
    /\ store' = WriteAtStart(r.content, store)
    /\ written' = Append(written, c)
    /\ last' = Done("add", calls[c].req, AddResponse(r), enable_wg_reload, None, content)
    /\ UNCHANGED <<enable_wg_reload, dns_vars>>

AddedTo(content, req) ==
    add_peer(content, req.name, req.public_key, req.assigned_ip, req.added_at,
             req.endpoint, req.preshared_key)

AddOpen(c) ==
    /\ calls[c].pc = "read"
    /\ AddOpenDone(c, content_read(c), AddedTo(content_read(c), calls[c].req))

AddWrite(c) ==
    /\ calls[c].pc = "opened"
    /\ AddWriteDone(c, content_read(c), AddedTo(content_read(c), calls[c].req))

RaceNext ==
    \/ \E c \in CallIds : AddRead(c)
    \/ \E c \in CallIds : AddOpen(c)
    \/ \E c \in CallIds : AddWrite(c)

RaceSpec == RaceInit /\ [][RaceNext]_vars

(***************************************************************************)
(* add_peer and remove_peer called by two callers at once.  A remove is    *)
(* three steps as well: it reads the file; it cuts the blocks of its name  *)
(* out of the text it read and, one found, opens the file for writing; and *)
(* it writes the rest.  calls[c].pc is "read" for an add that has read,    *)
(* "opened" for one that has opened the file, "del read" and "del opened"  *)
(* for a remove, "done" and "del done" for the finished calls.             *)
(***************************************************************************)
\* a free name and address, a stored name with a blank after it, and a free
\* name with a stored address
MixedRequests ==
    {Req(<<"new-device">>, <<"NEW_PUBLIC_KEY">>, Ip2, None, None),
     Req(<<"test-device", " ">>, <<"OTHER_PUBLIC_KEY">>, Ip3, None, None),
     Req(<<"other-device">>, <<"OTHER_PUBLIC_KEY">>, Ip5, None, None)}

MixedNames == {<<"test-device">>, <<"new-device">>}

\* content = self.read_config(), the first statement of add_peer and of
\* remove_peer: the call ends here when there is no file
ReadConfig(c, op, pc, finished, req) ==
    /\ calls[c].pc \in {"idle", "done", "del done"}
    /\ Len(written) < MaxWrites
    /\ IF Exists(store)
       THEN /\ calls' = [calls EXCEPT ![c] = [pc |-> pc, req |-> req, content |-> store,
                                               epoch |-> Len(written),
                                               error |-> "none", reload |-> "none"]]
            /\ UNCHANGED last
       ELSE /\ calls' = [calls EXCEPT ![c] = [pc |-> finished, req |-> req, content |-> store,
                                               epoch |-> Len(written),
                                               error |-> "StoreNotFound", reload |-> "none"]]
            /\ last' = Done(op, req,
                            [status |-> 503, success |-> FALSE, error |-> "StoreNotFound"],
                            FALSE, None, store)
    /\ UNCHANGED <<store, written, enable_wg_reload, dns_vars>>

MixedAddRead(c) ==
    \E req \in MixedRequests : ReadConfig(c, "add", "read", "done", req)

RemoveRead(c) ==
    \E name \in MixedNames :
        ReadConfig(c, "del", "del read", "del done", [NoReq EXCEPT !.name = name])

\* pattern.subn on the text read and, count not 0, the open of write_config
RemoveOpenDone(c, content, r) ==
    /\ IF r.removed
       THEN /\ calls' = [calls EXCEPT ![c].pc = "del opened"]
            /\ store' = <<>>
            /\ UNCHANGED last
       ELSE /\ calls' = [calls EXCEPT ![c].pc = "del done", ![c].error = "NotFound"]
            /\ last' = Done("del", calls[c].req, DeleteResponse(content, r), FALSE, None,
                            content)
            /\ UNCHANGED store
    /\ UNCHANGED <<written, enable_wg_reload, dns_vars>>

RemoveOpen(c) ==
    /\ calls[c].pc = "del read"
    /\ RemoveOpenDone(c, content_read(c), remove_peer(content_read(c), calls[c].req.name))

\* new_content written and the file closed
RemoveWriteDone(c, content, r) ==
    /\ calls' = [calls EXCEPT ![c].pc = "del done"]
    /\ store' = WriteAtStart(r.content, store)
    /\ written' = Append(written, c)
    /\ last' = Done("del", calls[c].req, DeleteResponse(content, r), enable_wg_reload, None,
                    content)
    /\ UNCHANGED <<enable_wg_reload, dns_vars>>

RemoveWrite(c) ==
    /\ calls[c].pc = "del opened"
    /\ RemoveWriteDone(c, content_read(c), remove_peer(content_read(c), calls[c].req.name))

MixedNext ==
    \/ \E c \in CallIds : MixedAddRead(c)
    \/ \E c \in CallIds : AddOpen(c)
    \/ \E c \in CallIds : AddWrite(c)
    \/ \E c \in CallIds : RemoveRead(c)
    \/ \E c \in CallIds : RemoveOpen(c)
    \/ \E c \in CallIds : RemoveWrite(c)

MixedSpec == RaceInit /\ [][MixedNext]_vars

(***************************************************************************)
(* The DNS service: start_background() creates the thread that runs        *)
(* serve_forever, stop() clears the running flag and waits for the thread  *)
(* for at most two seconds.  thread is the position of the loop thread:    *)
(* "None" (not created), "created" (before the socket is bound), "bound"   *)
(* (before self.running = True), "test" (at while self.running), "recv"    *)
(* (in recvfrom), "leaving" (before socket.close()), "exited".  The steps  *)
(* of stop() and of the loop thread interleave freely: the flag has no     *)
(* lock.                                                                   *)
(***************************************************************************)
Client1 == <<"10.8.0.5", 40000>>
Client2 == <<"10.8.0.6", 40001>>

Datagrams ==
    {Garbage(Client1),
     Query(1, <<"test-device">> \o DOMAIN_SUFFIX, QTYPE_A, Client1),
     Query(2, <<"test-device">> \o DOMAIN_SUFFIX, QTYPE_A, Client2),
     Query(3, <<"legacy-device">> \o DOMAIN_SUFFIX, QTYPE_A, Client1),
     Query(4, <<"Server">> \o DOMAIN_SUFFIX, QTYPE_A, Client2),
     Query(5, <<"nonexistent">> \o DOMAIN_SUFFIX, QTYPE_A, Client1),
     Query(6, <<"test-device">> \o DOMAIN_SUFFIX, 28, Client1),
     Query(7, <<"test-device", ".", "other", ".", "com">>, QTYPE_A, Client2)}

DnsInit ==
    /\ store \in InitialStores
    /\ enable_wg_reload = FALSE
    /\ last = Done("init", NoReq, [status |-> 200, success |-> TRUE, error |-> "none"],
                   FALSE, None, store)
    /\ NoCalls
    /\ DnsConstructed

\* start_background(): the thread is created and started
StartBackground ==
    /\ thread = "None"
    /\ thread' = "created"
    /\ UNCHANGED <<store, last, enable_wg_reload, race_vars, running, socket, stop_called>>

\* stop(): the flag is cleared; the join that follows returns when the thread
\* has ended or after two seconds, whichever is first, and changes nothing
Stop ==
    /\ thread # "None"
    /\ running' = FALSE
    /\ stop_called' = TRUE
    /\ UNCHANGED <<store, last, enable_wg_reload, race_vars, socket, thread>>

\* serve_forever: the socket is created, bound, and given its timeout
Bind ==
    /\ thread = "created"
    /\ socket' = "bound"
    /\ thread' = "bound"
    /\ UNCHANGED <<store, last, enable_wg_reload, race_vars, running, stop_called>>

\* self.running = True
SetRunning ==
    /\ thread = "bound"
    /\ running' = TRUE
    /\ thread' = "test"
    /\ UNCHANGED <<store, last, enable_wg_reload, race_vars, socket, stop_called>>

\* while self.running
LoopTest ==
    /\ thread = "test"
    /\ thread' = IF running THEN "recv" ELSE "leaving"
    /\ UNCHANGED <<store, last, enable_wg_reload, race_vars, running, socket, stop_called>>

\* recvfrom raises socket.timeout: continue
RecvTimeout ==
    /\ thread = "recv"
    /\ thread' = "test"
    /\ UNCHANGED <<store, last, enable_wg_reload, race_vars, running, socket, stop_called>>

\* the datagrams sendto sent for the value handle_request returned
SentFor(d, response) ==
    IF response.kind = "reply" THEN <<[to |-> d.addr, message |-> response]>> ELSE <<>>

\* faulty variant: an exception of handle_request ends the loop
Handled_dies(d, response) ==
    /\ last' = [op |-> "datagram", req |-> d, status |-> 0,
                success |-> response.kind # "raised",
                error |-> IF response.kind = "raised" THEN "DNS Error" ELSE "none",
                reload |-> FALSE, value |-> SentFor(d, response), pre |-> store]
    /\ thread' = IF response.kind = "raised" THEN "leaving" ELSE "test"
    /\ UNCHANGED <<store, enable_wg_reload, race_vars, running, socket, stop_called>>

Handled(d, response) ==
    /\ last' = [op |-> "datagram", req |-> d, status |-> 0,
                success |-> response.kind # "raised",
                error |-> IF response.kind = "raised" THEN "DNS Error" ELSE "none",
                reload |-> FALSE, value |-> SentFor(d, response), pre |-> store]
    /\ thread' = "test"
    /\ UNCHANGED <<store, enable_wg_reload, race_vars, running, socket, stop_called>>

\* recvfrom returns a datagram: it is handled, and the reply, if any, is sent
RecvDatagram ==
    \E d \in Datagrams :
        /\ thread = "recv"
        /\ Handled(d, handle_request(store, d))

\* self.socket.close()
CloseSocket ==
    /\ thread = "leaving"
    /\ socket' = "closed"
    /\ thread' = "exited"
    /\ UNCHANGED <<store, last, enable_wg_reload, race_vars, running, stop_called>>

\* the steps of the loop thread
LoopThread ==
    \/ Bind
    \/ SetRunning
    \/ LoopTest
    \/ RecvTimeout
    \/ RecvDatagram
    \/ CloseSocket

DnsNext ==
    \/ StartBackground
    \/ Stop
    \/ LoopThread

DnsSpec == DnsInit /\ [][DnsNext]_vars

\* the loop thread is a thread of its own: it is scheduled again and again
DnsFairSpec == DnsSpec /\ WF_vars(LoopThread)

(***************************************************************************)
(* parse_peers on files edited by hand: every block has the header that    *)
(* generate_peer_block writes, its body has both required fields, one of   *)
(* them, or none, and it is followed by an empty line or directly by the   *)
(* next block.  last.req keeps the blocks the file was made of.            *)
(***************************************************************************)
MaxDecodeBlocks == 3

BlockBodies == {"both", "no PublicKey", "no AllowedIPs", "neither"}

BlockName(i) == <<"peer-">> \o DecStr(i)
BlockKey(i) == <<"KEY-">> \o DecStr(i)
BlockIps(i) == IpStr(PoolCandidate(4 + i)) \o <<"/", "3", "2">>

BlockBody(b) ==
    (IF b.body \in {"both", "no AllowedIPs"}
     THEN <<PUBLIC_KEY, " ", "=", " ">> \o BlockKey(b.id) \o <<NL>> ELSE <<>>)
    \o (IF b.body \in {"both", "no PublicKey"}
        THEN <<ALLOWED_IPS, " ", "=", " ">> \o BlockIps(b.id) \o <<NL>> ELSE <<>>)

BlockText(b) ==
    <<BANNER, NL, "# ClientName:", " ">> \o BlockName(b.id)
    \o <<NL, "# AddedAt:", " ", "2026-01-27", NL, BANNER, NL, PEER_HDR, NL>>
    \o BlockBody(b)
    \o (IF b.gap THEN <<NL>> ELSE <<>>)

RECURSIVE BlockTexts(_)
BlockTexts(blocks) ==
    IF blocks = <<>> THEN <<>> ELSE BlockText(Head(blocks)) \o BlockTexts(Tail(blocks))

DocOf(blocks) == INTERFACE_ONLY \o <<NL>> \o BlockTexts(blocks)

\* the blocks of a file: block i has the name, key and address of its place
BlockLists ==
    UNION {{[i \in 1..n |-> [id |-> i, body |-> f[i][1], gap |-> f[i][2]]] :
                f \in [1..n -> BlockBodies \X BOOLEAN]} : n \in 1..MaxDecodeBlocks}

DecodeInit ==
    \E blocks \in BlockLists :
        /\ store = DocOf(blocks)
        /\ enable_wg_reload = FALSE
        /\ last = Done("init", [blocks |-> blocks],
                       [status |-> 200, success |-> TRUE, error |-> "none"], FALSE, None, store)
        /\ NoCalls
        /\ DnsConstructed

\* WgParser.parse_peers() on the file
ParsePeers == QueryDone("parse", last.req, Response(200, TRUE, "none", parse_peers(store)))

\* WgParser.get_p2p_candidates() on the file
P2PCandidates == QueryDone("candidates", last.req,
                           Response(200, TRUE, "none", get_p2p_candidates(store)))

DecodeNext ==
    \/ ParsePeers
    \/ P2PCandidates

DecodeSpec == DecodeInit /\ [][DecodeNext]_vars

(***************************************************************************)
(* generate_peer_block and parse_peers as a pair: a record is rendered as  *)
(* a block and the block is decoded.  The fields of a record are the       *)
(* texts add_peer accepts: any string, the two optional ones None as well. *)
(* last.req is the record, last.value the block, then the decoded peers or *)
(* the direct-connect candidates among them.                               *)
(***************************************************************************)
RecordNames == {<<"new-device">>, <<"new-device", " ">>, <<"my", " ", "nas">>, <<>>}
RecordKeys == {<<"NEW_PUBLIC_KEY">>, <<>>}
RecordIps == {Ip2, Ip5}
RecordEndpoints == {None, <<>>, <<" ">>, <<"nas.myhome.com:51820">>}
RecordPresharedKeys == {None, <<>>, <<"PRESHARED_KEY_VALUE">>}

Records ==
    {Req(n, k, ip, e, p) :
        n \in RecordNames, k \in RecordKeys, ip \in RecordIps,
        e \in RecordEndpoints, p \in RecordPresharedKeys}

CodecInit ==
    \E r \in Records :
        /\ store = Absent
        /\ enable_wg_reload = FALSE
        /\ last = Done("init", r, [status |-> 200, success |-> TRUE, error |-> "none"],
                       FALSE, None, store)
        /\ NoCalls
        /\ DnsConstructed

\* WgParser.generate_peer_block on the fields of the record
BlockOf(r) ==
    generate_peer_block(r.name, r.public_key, r.assigned_ip, r.added_at,
                        r.endpoint, r.preshared_key)

GeneratePeerBlock ==
    /\ last.op = "init"
    /\ QueryDone("encode", last.req, Response(200, TRUE, "none", BlockOf(last.req)))

\* WgParser.parse_peers(content) on the block
ParseBlock ==
    /\ last.op = "encode"
    /\ QueryDone("decode", last.req, Response(200, TRUE, "none", parse_peers(last.value)))

\* WgParser.get_p2p_candidates(content) on the block
CandidatesOfBlock ==
    /\ last.op = "encode"
    /\ QueryDone("block candidates", last.req,
                 Response(200, TRUE, "none", get_p2p_candidates(last.value)))

CodecNext ==
    \/ GeneratePeerBlock
    \/ ParseBlock
    \/ CandidatesOfBlock

CodecSpec == CodecInit /\ [][CodecNext]_vars

(***************************************************************************)
(* POST /peer/add and POST /peer/del with the hot reload, on the files and *)
(* the requests of the tests of the reload: the handlers of the state      *)
(* machine above, the open of write_config a step and the write with the   *)
(* call of reload_wg another.                                              *)
(***************************************************************************)
ReloadRequests ==
    {Req(<<"test-device">>, <<"NEW_PUBLIC_KEY">>, Ip2, None, None),
     Req(<<"new-device">>, <<"NEW_PUBLIC_KEY">>, Ip5, None, None),
     Req(<<"new-device">>, <<"NEW_PUBLIC_KEY">>, Ip2, None, None),
     Req(<<"other-device">>, <<"OTHER_PUBLIC_KEY">>, Ip3, None, None),
     Req(<<"other-device">>, <<"OTHER_PUBLIC_KEY">>, <<"fd00::5">>, None, None)}

ReloadNames == {<<"test-device">>, <<"new-device">>, <<"other-device">>, <<"nonexistent">>}

ReloadInit ==
    /\ store \in {Absent, INTERFACE_ONLY, SAMPLE_WG_CONFIG}
    /\ enable_wg_reload \in BOOLEAN
    /\ last = Done("init", NoReq, [status |-> 200, success |-> TRUE, error |-> "none"],
                   FALSE, None, store)
    /\ NoCalls
    /\ DnsConstructed

ReloadAddPeer ==
    \E req \in ReloadRequests :
        /\ NumBlocks(store) < MaxBlocks
        /\ AddPeerDone(req, add_peer_response(store, req))

ReloadDeletePeer ==
    \E name \in ReloadNames : DeletePeerDone(name, delete_peer_response(store, name))

ReloadNext ==
    \/ ReloadAddPeer
    \/ ReloadDeletePeer
    \/ WriteConfig
    \/ ReloadWg
    \/ HandlerReturns

ReloadSpec == ReloadInit /\ [][ReloadNext]_vars

(***************************************************************************)
(* Adds and removes of peers whose names differ in the case of a letter    *)
(* only, or are an alias in another case, and the queries for those names  *)
(* in either case.                                                         *)
(***************************************************************************)
Spellings ==
    {<<"a">>, <<"A">>, <<"B">>, <<"b">>, <<"Server">>, <<"server">>, <<"new-device">>}

SpelledNames == {<<"a">>, <<"A">>, <<"B">>, <<"Server">>, <<"new-device">>}

SpelledRequests ==
    {Req(n, <<"NEW_PUBLIC_KEY">>, ip, None, None) : n \in SpelledNames, ip \in {Ip2, Ip3}}

SpelledInit ==
    /\ store \in {INTERFACE_ONLY, SAMPLE_WG_CONFIG}
    /\ enable_wg_reload \in BOOLEAN
    /\ last = Done("init", NoReq, [status |-> 200, success |-> TRUE, error |-> "none"],
                   FALSE, None, store)
    /\ NoCalls
    /\ DnsConstructed

SpelledAddPeer ==
    \E req \in SpelledRequests :
        /\ NumBlocks(store) < MaxBlocks
        /\ AddPeerDone(req, add_peer_response(store, req))

SpelledDeletePeer ==
    \E name \in SpelledNames : DeletePeerDone(name, delete_peer_response(store, name))

SpelledResolveQuery ==
    \E n \in Spellings :
        QueryDone("resolve", [NoReq EXCEPT !.name = n \o DOMAIN_SUFFIX,
                                           !.assigned_ip = <<QTYPE_A>>],
                  Answer(resolve_query(store, n \o DOMAIN_SUFFIX, QTYPE_A)))

SpelledNext ==
    \/ SpelledAddPeer
    \/ SpelledDeletePeer
    \/ WriteConfig
    \/ ReloadWg
    \/ HandlerReturns
    \/ SpelledResolveQuery

SpelledSpec == SpelledInit /\ [][SpelledNext]_vars

(***************************************************************************)
(* Adds that ask for the root address, with and without a prefix length,   *)
(* under a free and under a taken name, and an add whose public key        *)
(* carries a line of its own ("...\nAllowedIPs = 10.8.0.1/32"): add_peer   *)
(* writes the key as it is given.                                          *)
(***************************************************************************)
KEY_WITH_LINE ==
    <<"NEW_PUBLIC_KEY", NL, ALLOWED_IPS, " ", "=", " "
    >> \o ROOT_ADDRESS \o <<"/", "3", "2">>

RootRequests ==
    {Req(<<"new-device">>, <<"NEW_PUBLIC_KEY">>, ip, None, None) :
        ip \in {ROOT_ADDRESS, ROOT_ADDRESS \o <<"/", "3", "2">>,
                ROOT_ADDRESS \o <<"/", "2", "4">>, Ip2}}
    \cup {Req(<<"test-device">>, <<"NEW_PUBLIC_KEY">>, ROOT_ADDRESS, None, None),
          Req(<<"other-device">>, <<"OTHER_PUBLIC_KEY">>, Ip3, None, None),
          Req(<<"new-device">>, KEY_WITH_LINE, Ip2, None, None)}

RootNames == {<<"test-device">>, <<"new-device">>, <<"other-device">>}

RootInit ==
    /\ store \in {Absent, INTERFACE_ONLY, SAMPLE_WG_CONFIG}
    /\ enable_wg_reload \in BOOLEAN
    /\ last = Done("init", NoReq, [status |-> 200, success |-> TRUE, error |-> "none"],
                   FALSE, None, store)
    /\ NoCalls
    /\ DnsConstructed

RootAddPeer ==
    \E req \in RootRequests :
        /\ NumBlocks(store) < MaxBlocks
        /\ AddPeerDone(req, add_peer_response(store, req))

RootDeletePeer ==
    \E name \in RootNames : DeletePeerDone(name, delete_peer_response(store, name))

RootNext ==
    \/ RootAddPeer
    \/ RootDeletePeer
    \/ WriteConfig
    \/ ReloadWg
    \/ HandlerReturns
    \/ CheckIpConflict
    \/ GetConfigTemplate

RootSpec == RootInit /\ [][RootNext]_vars

(***************************************************************************)
(* ClashParser (clash_parser.py).  A date is <<year, month, day>>; the key *)
(* of a provider is its text, one token per character of its date part.    *)
(* What yaml.safe_load returned for "proxy-providers" is an input: the     *)
(* keys with their values in the order of the document, and whether the    *)
(* file exists.  An optional number or date is <<>> for None and           *)
(* <<n>> for the number n.                                                 *)
(***************************************************************************)
Missing == <<>>

IsLeap(y) == y % 4 = 0 /\ (y % 100 # 0 \/ y % 400 = 0)

DaysInMonth(y, m) ==
    IF m = 2 THEN (IF IsLeap(y) THEN 29 ELSE 28)
    ELSE IF m \in {4, 6, 9, 11} THEN 30 ELSE 31

\* date(year, month, day) raises ValueError outside of these
DateOk(y, m, d) == y \in 1..9999 /\ m \in 1..12 /\ d \in 1..DaysInMonth(y, m)

DaysBeforeYear(y) ==
    365 * (y - 1) + ((y - 1) \div 4) - ((y - 1) \div 100) + ((y - 1) \div 400)

RECURSIVE DaysBeforeMonth(_, _)
DaysBeforeMonth(y, m) ==
    IF m = 1 THEN 0 ELSE DaysBeforeMonth(y, m - 1) + DaysInMonth(y, m - 1)

\* date.toordinal()
ToOrdinal(dt) == DaysBeforeYear(dt[1]) + DaysBeforeMonth(dt[1], dt[2]) + dt[3]

\* DATE_PATTERN: ^(.+)-(\d{4})-(\d{2})-(\d{2})$
AllDigits(s) == \A i \in 1..Len(s) : s[i] \in Digits

DateTailOk(t) ==
    /\ t[1] = "-" /\ AllDigits(SubSeq(t, 2, 5))
    /\ t[6] = "-" /\ AllDigits(SubSeq(t, 7, 8))
    /\ t[9] = "-" /\ AllDigits(SubSeq(t, 10, 11))

DateMatch(key) == Len(key) >= 12 /\ DateTailOk(SubSeq(key, Len(key) - 10, Len(key)))

NoDate(key) == [name |-> key, expire_date |-> Missing]

DateOfGroups(key, name, y, m, d) ==
    IF DateOk(y, m, d) THEN [name |-> name, expire_date |-> <<y, m, d>>] ELSE NoDate(key)

DateOfTail(key, t) ==
    DateOfGroups(key, SubSeq(key, 1, Len(key) - 11),
                 DecVal(SubSeq(t, 2, 5)), DecVal(SubSeq(t, 7, 8)), DecVal(SubSeq(t, 10, 11)))

parse_subscription_date(key) ==
    IF DateMatch(key) THEN DateOfTail(key, SubSeq(key, Len(key) - 10, Len(key)))
    ELSE NoDate(key)

\* faulty variant: the day of the expiry counts as expired
StatusOfDays_strict(days_remaining) ==
    IF days_remaining <= 0 THEN [days_remaining |-> <<days_remaining>>, status |-> "expired"]
    ELSE IF days_remaining <= 7 THEN [days_remaining |-> <<days_remaining>>, status |-> "expiring"]
    ELSE [days_remaining |-> <<days_remaining>>, status |-> "active"]

StatusOfDays(days_remaining) ==
    IF days_remaining < 0 THEN [days_remaining |-> <<days_remaining>>, status |-> "expired"]
    ELSE IF days_remaining <= 7 THEN [days_remaining |-> <<days_remaining>>, status |-> "expiring"]
    ELSE [days_remaining |-> <<days_remaining>>, status |-> "active"]

\* calculate_status(expire_date, today): (expire_date - today).days
calculate_status(expire_date, today) ==
    IF expire_date = Missing THEN [days_remaining |-> Missing, status |-> "unknown"]
    ELSE StatusOfDays(ToOrdinal(expire_date) - ToOrdinal(today))

SubscriptionInfo(provider, parsed, st) ==
    [key |-> provider.key, name |-> parsed.name, expire_date |-> parsed.expire_date,
     days_remaining |-> st.days_remaining, status |-> st.status, url |-> provider.url]

InfoOfParsed(provider, parsed, today) ==
    SubscriptionInfo(provider, parsed, calculate_status(parsed.expire_date, today))

InfoOf(provider, today) ==
    InfoOfParsed(provider, parse_subscription_date(provider.key), today)

\* status_order.get(x.status, 4)
StatusOrder(status) ==
    CASE status = "expired" -> 0
      [] status = "expiring" -> 1
      [] status = "active" -> 2
      [] status = "unknown" -> 3
      [] OTHER -> 4

\* x.days_remaining or 999: None and 0 are both false
DaysOr999(days_remaining) ==
    IF days_remaining = Missing \/ days_remaining = <<0>> THEN 999 ELSE days_remaining[1]

SortKey(info) == <<StatusOrder(info.status), DaysOr999(info.days_remaining)>>

KeyLess(a, b) == a[1] < b[1] \/ (a[1] = b[1] /\ a[2] < b[2])

\* list.sort(key=...): stable, equal keys keep their order
SortedPosition(keys, i) ==
    1 + Cardinality({j \in 1..Len(keys) :
                        KeyLess(keys[j], keys[i]) \/ (keys[j] = keys[i] /\ j < i)})

SortedBy(infos, keys) ==
    [p \in 1..Len(infos) |->
        infos[CHOOSE i \in 1..Len(infos) : SortedPosition(keys, i) = p]]

SortInfos(infos) == SortedBy(infos, [k \in 1..Len(infos) |-> SortKey(infos[k])])

get_subscription_status(exists, providers, today) ==
    IF ~exists THEN <<>>
    ELSE SortInfos([k \in 1..Len(providers) |-> InfoOf(providers[k], today)])

\* date.isoformat()
Pad(s, width) == [i \in 1..(width - Len(s)) |-> "0"] \o s

IsoFormat(dt) ==
    IF dt = Missing THEN None
    ELSE Pad(DecStr(dt[1]), 4) \o <<"-">> \o Pad(DecStr(dt[2]), 2) \o <<"-">> \o Pad(DecStr(dt[3]), 2)

CountOf(subs, status) == Cardinality({k \in 1..Len(subs) : subs[k].status = status})

SummaryOf(subs) ==
    [total |-> Len(subs),
     expired |-> CountOf(subs, "expired"),
     expiring |-> CountOf(subs, "expiring"),
     active |-> CountOf(subs, "active"),
     unknown |-> CountOf(subs, "unknown"),
     subscriptions |-> [k \in 1..Len(subs) |->
                           [key |-> subs[k].key, name |-> subs[k].name,
                            expire_date |-> IsoFormat(subs[k].expire_date),
                            days_remaining |-> subs[k].days_remaining,
                            status |-> subs[k].status]]]

get_status_summary(exists, providers, today) ==
    SummaryOf(get_subscription_status(exists, providers, today))

(***************************************************************************)
(* The three queries on a provider mapping and a date of today, and the    *)
(* upload that writes the file anew.  The file (whether it exists, and the *)
(* providers of its document) and the date are kept in last.req.           *)
(***************************************************************************)
MaxProviders == 3

DateKey(name, y, m, d) == <<name, "-">> \o y \o <<"-">> \o m \o <<"-">> \o d

ProviderKeys ==
    {DateKey("provider-a", <<"2", "0", "2", "6">>, <<"0", "2">>, <<"1", "5">>),
     DateKey("provider-b", <<"2", "0", "2", "6">>, <<"0", "1">>, <<"2", "0">>),
     <<"legacy-provider">>,
     DateKey("c", <<"2", "0", "2", "6">>, <<"0", "1">>, <<"2", "8">>),
     DateKey("d", <<"2", "0", "2", "6">>, <<"0", "1">>, <<"3", "1">>),
     DateKey("e", <<"2", "0", "2", "6">>, <<"0", "2">>, <<"0", "4">>),
     DateKey("f", <<"2", "0", "2", "6">>, <<"0", "2">>, <<"0", "5">>),
     DateKey("g", <<"2", "0", "2", "6">>, <<"0", "2">>, <<"3", "0">>),
     DateKey("h", <<"2", "0", "2", "8">>, <<"0", "2">>, <<"2", "9">>)}

\* the value of a provider: a mapping with its url, or no mapping
ProviderOf(key) ==
    [key |-> key, url |-> IF key = <<"legacy-provider">> THEN None ELSE <<"https://example.com/sub">>]

\* a mapping has each key once
ProviderLists ==
    {[k \in 1..Len(s) |-> ProviderOf(s[k])] :
        s \in {t \in UNION {[1..n -> ProviderKeys] : n \in 0..MaxProviders} :
                  \A i, j \in 1..Len(t) : t[i] = t[j] => i = j}}

Todays == {<<2026, 1, 28>>, <<2026, 2, 10>>}

ClashInit ==
    \E providers \in ProviderLists, today \in Todays, exists \in BOOLEAN :
        /\ ~exists => providers = <<>>
        /\ store = Absent
        /\ enable_wg_reload = FALSE
        /\ last = Done("init", [exists |-> exists, providers |-> providers, today |-> today],
                       [status |-> 200, success |-> TRUE, error |-> "none"],
                       FALSE, None, store)
        /\ NoCalls
        /\ DnsConstructed

\* the expiry dates calculate_status is called with: none, and those of the keys
ExpireDates(providers) ==
    {Missing} \cup {parse_subscription_date(providers[k].key).expire_date :
                        k \in 1..Len(providers)}

CalculateStatus ==
    \E expire_date \in ExpireDates(last.req.providers) :
        QueryDone("calculate_status", last.req,
                  Response(200, TRUE, "none",
                           [expire_date |-> expire_date,
                            result |-> calculate_status(expire_date, last.req.today)]))

GetSubscriptionStatus ==
    QueryDone("subscription_status", last.req,
              Response(200, TRUE, "none",
                       get_subscription_status(last.req.exists, last.req.providers,
                                               last.req.today)))

GetStatusSummary ==
    QueryDone("status_summary", last.req,
              Response(200, TRUE, "none",
                       get_status_summary(last.req.exists, last.req.providers, last.req.today)))

\* the documents of an upload, by the providers yaml.safe_load finds in them
UploadedProviders ==
    {<<>>,
     <<ProviderOf(DateKey("provider-a", <<"2", "0", "2", "6">>, <<"0", "2">>, <<"1", "5">>))>>,
     <<ProviderOf(DateKey("provider-b", <<"2", "0", "2", "6">>, <<"0", "1">>, <<"2", "0">>)),
       ProviderOf(<<"legacy-provider">>),
       ProviderOf(DateKey("d", <<"2", "0", "2", "6">>, <<"0", "1">>, <<"3", "1">>))>>}

\* a body of blanks only, or a document
UploadBodies ==
    {[blank |-> TRUE, providers |-> <<>>]} \cup
    {[blank |-> FALSE, providers |-> providers] : providers \in UploadedProviders}

\* ClashParser.write_config: mkdir and write_text pass, or one of them raises
\* and the file is as it was
WriteOutcomes == {"ok", "PermissionError"}

\* POST /api/clash/config/upload: the file afterwards and the response; every
\* response has status 200
upload_config(file, body, write) ==
    IF body.blank THEN [file |-> file, success |-> FALSE, error |-> "EmptyBody"]
    ELSE IF write # "ok" THEN [file |-> file, success |-> FALSE, error |-> write]
    ELSE [file |-> [file EXCEPT !.exists = TRUE, !.providers = body.providers],
          success |-> TRUE, error |-> "none"]

UploadDone(uploaded) ==
    QueryDone("upload", uploaded.file,
              Response(200, uploaded.success, uploaded.error, None))

\* the handler is a coroutine that does not wait between the open and the
\* write, and no thread reads this file: the upload is one step
UploadConfig ==
    \E body \in UploadBodies, write \in WriteOutcomes :
        UploadDone(upload_config(last.req, body, write))

ClashNext ==
    \/ UploadConfig
    \/ CalculateStatus
    \/ GetSubscriptionStatus
    \/ GetStatusSummary

ClashSpec == ClashInit /\ [][ClashNext]_vars

(***************************************************************************)
(* The registry as its contract speaks of it                               *)
(***************************************************************************)
\* list(): the decoded peers, none when the file is absent
Registry(st) == IF Exists(st) THEN parse_peers(st) ELSE <<>>

\* the host address of an address text, its prefix length dropped
HostAddress(text) == IPv4Address(SplitHead(text, "/"))

HasName(peers, n) == \E k \in 1..Len(peers) : peers[k].name = n

DistinctNames(peers) ==
    \A i, j \in 1..Len(peers) : i # j => peers[i].name # peers[j].name

DistinctHosts(peers) ==
    \A i, j \in 1..Len(peers) :
        i # j => SplitHead(peers[i].allowed_ips, "/") # SplitHead(peers[j].allowed_ips, "/")

\* the record an add request asks for
Supplied(req) ==
    [name |-> req.name, public_key |-> req.public_key,
     allowed_ips |-> req.assigned_ip \o <<"/", "3", "2">>, added_at |-> req.added_at,
     endpoint |-> req.endpoint, preshared_key |-> req.preshared_key]

NotNamed(peers, n) == SelectSeq(peers, LAMBDA p : p.name # n)

\* some block of the file has the header line "# ClientName: <name>"
Carries(st, name) ==
    \E j \in 1..Len(st) : StartsAt(st, j, <<"# ClientName:", " ">> \o name \o <<NL>>)

SameHost(peers, ip) ==
    /\ HostAddress(ip) # Invalid
    /\ \E k \in 1..Len(peers) : HostAddress(peers[k].allowed_ips) = HostAddress(ip)

\* every address 10.8.0.2 .. 10.8.0.254 is among the used ones
AllUsed(used) == \A i \in 2..254 : PoolCandidate(i) \in used

\* value is the text of the lowest address 10.8.0.2 .. 10.8.0.254 not among the used ones
LowestFree(value, used) ==
    \E i \in 2..254 :
        /\ value = IpStr(PoolCandidate(i))
        /\ PoolCandidate(i) \notin used
        /\ \A j \in 2..(i - 1) : PoolCandidate(j) \in used

\* what the template operation answered, given the addresses used before it
ExhaustedAnswer(used) ==
    /\ (last.error = "PoolExhausted") <=> AllUsed(used)
    /\ (last.status = 503) <=> AllUsed(used)
    /\ last.error = "PoolExhausted" => ~last.success

(***************************************************************************)
(* C1.  Every initial file has pairwise distinct names and pairwise        *)
(* distinct host addresses, none of them the root address.  The claim:     *)
(* after any sequence of add and remove calls the decoded peers still have *)
(* pairwise distinct names and pairwise distinct host addresses.           *)
(* Refuted: add compares the name as given with the stored names stripped, *)
(* so a name that differs from a stored one by blanks at its ends is       *)
(* written and then decoded to the same name.                              *)
(***************************************************************************)
C1_RegistryStaysUnique ==
    DistinctNames(Registry(store)) /\ DistinctHosts(Registry(store))

(***************************************************************************)
(* C2.  The claim: when add succeeds, the decoded peers afterwards are the *)
(* decoded peers before with one record appended, which carries the name,  *)
(* key, address/32, date, endpoint and preshared key of the request.       *)
(* Refuted: add writes the fields unchecked, and a block whose name is     *)
(* empty is not decoded at all.                                            *)
(***************************************************************************)
C2_AddAppendsTheRecord ==
    (last.op = "add" /\ last.success) =>
        Registry(store) = Append(Registry(last.pre), Supplied(last.req))

(***************************************************************************)
(* C3.  An add whose name equals the name of a decoded peer fails with     *)
(* NameConflict, leaves the file as it was, and is answered by the HTTP    *)
(* operation with status 200 and success = false.                          *)
(***************************************************************************)
C3_NameConflict ==
    (last.op = "add" /\ Exists(last.pre) /\ HasName(Registry(last.pre), last.req.name)) =>
        /\ last.error = "NameConflict"
        /\ last.status = 200
        /\ ~last.success
        /\ store = last.pre

C3_Witness ==
    /\ last.op = "add"
    /\ Exists(last.pre)
    /\ HasName(Registry(last.pre), last.req.name)
    /\ last.error = "NameConflict"

(***************************************************************************)
(* C4, as stated: an add whose address has the host address of a decoded   *)
(* peer fails with AddressConflict and leaves the file as it was, whatever *)
(* its name.  This fails when the name is taken as well: the name is       *)
(* checked first.                                                          *)
(***************************************************************************)
C4_AsStated ==
    (last.op = "add" /\ Exists(last.pre) /\ SameHost(Registry(last.pre), last.req.assigned_ip)) =>
        /\ last.error = "AddressConflict"
        /\ store = last.pre

(***************************************************************************)
(* C4, amended: an add whose address has the host address of a decoded     *)
(* peer leaves the file as it was; it fails with AddressConflict when its  *)
(* name is the name of no decoded peer, and with NameConflict otherwise.   *)
(***************************************************************************)
C4_AddressConflict ==
    (last.op = "add" /\ Exists(last.pre) /\ SameHost(Registry(last.pre), last.req.assigned_ip)) =>
        /\ store = last.pre
        /\ last.error = IF HasName(Registry(last.pre), last.req.name)
                        THEN "NameConflict" ELSE "AddressConflict"

C4_Witness ==
    /\ last.op = "add"
    /\ Exists(last.pre)
    /\ SameHost(Registry(last.pre), last.req.assigned_ip)
    /\ ~HasName(Registry(last.pre), last.req.name)
    /\ last.error = "AddressConflict"

(***************************************************************************)
(* C5.  The claim: remove of a name that a decoded peer has returns true,  *)
(* and the decoded peers afterwards are the ones before without the peers  *)
(* of that name, in the same order.                                        *)
(* Refuted: remove looks for the name as it is written in the file, the    *)
(* decoder strips it, so a peer whose header line ends with a blank is     *)
(* listed under a name that remove does not find.                          *)
(***************************************************************************)
C5_RemoveExisting ==
    (last.op = "del" /\ Exists(last.pre) /\ HasName(Registry(last.pre), last.req.name)) =>
        /\ last.success
        /\ Registry(store) = NotNamed(Registry(last.pre), last.req.name)

(***************************************************************************)
(* C6.  Remove of a name that no header line of the file carries returns   *)
(* false and leaves the file as it was; the HTTP operation answers with    *)
(* status 200 and success = false and calls no reload.                     *)
(***************************************************************************)
C6_RemoveAbsent ==
    (last.op = "del" /\ Exists(last.pre) /\ ~Carries(last.pre, last.req.name)) =>
        /\ last.status = 200
        /\ ~last.success
        /\ last.error = "NotFound"
        /\ store = last.pre
        /\ ~last.reload

C6_Witness ==
    /\ last.op = "del"
    /\ Exists(last.pre)
    /\ Registry(last.pre) # <<>>
    /\ ~Carries(last.pre, last.req.name)
    /\ enable_wg_reload
    /\ ~last.success

(***************************************************************************)
(* C7.  When some address 10.8.0.2 .. 10.8.0.254 is not in use, the        *)
(* address offered is the lowest of them that is not in use: it is not the *)
(* root address, not 10.8.0.0, not 10.8.0.255, and not in use.             *)
(***************************************************************************)
NextAnswer(next, used) ==
    ~AllUsed(used) =>
        /\ next # PoolExhausted
        /\ LowestFree(IpStr(next), used)
        /\ IpStr(next) \notin {ROOT_ADDRESS, <<"1", "0", ".", "8", ".", "0", ".", "0">>,
                               <<"1", "0", ".", "8", ".", "0", ".", "2", "5", "5">>}

\* the allocation on the file the template operation read, and the address
\* the operation carries when it answers
C7_NextAvailable ==
    (last.op = "template" /\ Exists(last.pre)) =>
        /\ NextAnswer(get_next_available_ip(last.pre), get_used_ips(last.pre))
        /\ last.status = 200 => last.value = IpStr(get_next_available_ip(last.pre))

\* the lowest free address lies behind used ones and before another free one
C7_Witness ==
    /\ last.op = "template"
    /\ last.value = IpStr(PoolCandidate(128))
    /\ {PoolCandidate(2), PoolCandidate(254)} \cap get_used_ips(last.pre) = {PoolCandidate(2)}

(***************************************************************************)
(* C8.  The allocation fails with PoolExhausted exactly when every address *)
(* 10.8.0.2 .. 10.8.0.254 is in use; the template operation then answers   *)
(* with status 503, which no conflict of an add is answered with, and the  *)
(* file is as it was.                                                      *)
(***************************************************************************)
C8_PoolExhausted ==
    /\ (last.op = "template" /\ Exists(last.pre)) =>
           /\ ExhaustedAnswer(get_used_ips(last.pre))
           /\ store = last.pre
    /\ (last.op = "add" /\ last.error \in {"NameConflict", "AddressConflict"}) =>
           last.status # 503

C8_Witness ==
    /\ last.op = "template"
    /\ last.status = 503
    /\ AllUsed(get_used_ips(last.pre))

(***************************************************************************)
(* C9.  check_ip_conflict fails with InvalidAddress when the candidate,    *)
(* its prefix length dropped, is no host address; otherwise it does not    *)
(* fail and returns true exactly when that address is the root address or  *)
(* the host address of a decoded peer, whatever the other peers' addresses *)
(* are.                                                                    *)
(***************************************************************************)
C9_HasConflict ==
    (last.op = "check_ip" /\ Exists(last.pre)) =>
        IF HostAddress(last.req.assigned_ip) = Invalid
        THEN last.error = "InvalidAddress"
        ELSE /\ last.error = "none"
             /\ last.value \in {<<"True">>, <<"False">>}
             /\ (last.value = <<"True">>) <=>
                    \/ SplitHead(last.req.assigned_ip, "/") = ROOT_ADDRESS
                    \/ SameHost(Registry(last.pre), last.req.assigned_ip)

\* a free candidate checked against a file whose one peer has no IPv4 address
C9_Witness ==
    /\ last.op = "check_ip"
    /\ Exists(last.pre)
    /\ \E k \in 1..Len(Registry(last.pre)) :
           HostAddress(Registry(last.pre)[k].allowed_ips) = Invalid
    /\ last.value = <<"False">>

(***************************************************************************)
(* C10.  With the file absent the reading operations answer as for an      *)
(* empty registry and report no error: no peers, no candidates, the        *)
(* address 10.8.0.2, and the resolver answers the A queries for the two    *)
(* aliases of the root address and no other query.                         *)
(***************************************************************************)
C10_AbsentStore ==
    ~Exists(last.pre) =>
        /\ last.op \in {"list", "p2p"} =>
               last.status = 200 /\ last.success /\ last.value = <<>>
        /\ last.op = "template" =>
               last.status = 200 /\ last.success
               /\ last.value = <<"1", "0", ".", "8", ".", "0", ".", "2">>
        /\ last.op = "resolve" =>
               /\ last.value \in {None, ROOT_ADDRESS}
               /\ (last.value = ROOT_ADDRESS) <=>
                      /\ last.req.assigned_ip = <<QTYPE_A>>
                      /\ RStripDots(Lower(last.req.name)) \in
                             {<<"server">> \o DOMAIN_SUFFIX, <<"gateway">> \o DOMAIN_SUFFIX}

\* what does hold: the same, the template operation taken only when the key
\* command raises nothing but what get_server_public_key catches
C10_AbsentStoreWhenKeyRuns ==
    ~Exists(last.pre) =>
        /\ last.op \in {"list", "p2p"} =>
               last.status = 200 /\ last.success /\ last.value = <<>>
        /\ (last.op = "template" /\ get_server_public_key(last.req).raised = "none") =>
               last.status = 200 /\ last.success
               /\ last.value = <<"1", "0", ".", "8", ".", "0", ".", "2">>
        /\ last.op = "resolve" =>
               /\ last.value \in {None, ROOT_ADDRESS}
               /\ (last.value = ROOT_ADDRESS) <=>
                      /\ last.req.assigned_ip = <<QTYPE_A>>
                      /\ RStripDots(Lower(last.req.name)) \in
                             {<<"server">> \o DOMAIN_SUFFIX, <<"gateway">> \o DOMAIN_SUFFIX}

\* the file is absent, the key command may not be executed, and the template
\* operation answers with status 500
C10_TemplateFails ==
    /\ ~Exists(last.pre)
    /\ last.op = "template"
    /\ last.status = 500
    /\ last.error = "PermissionError"

(***************************************************************************)
(* C11.  An add or a remove on an absent file fails with StoreNotFound:    *)
(* the HTTP operation answers with status 503, which no conflict and no    *)
(* not-found result is answered with; the file is still absent afterwards  *)
(* and no reload is called.                                                *)
(***************************************************************************)
C11_StoreNotFound ==
    /\ (last.op \in {"add", "del"} /\ ~Exists(last.pre)) =>
           /\ last.status = 503
           /\ last.error = "StoreNotFound"
           /\ ~last.success
           /\ ~Exists(store)
           /\ ~last.reload
    /\ (last.op \in {"add", "del"}
        /\ last.error \in {"NameConflict", "AddressConflict", "InvalidAddress", "NotFound"}) =>
           last.status = 200

C11_Witness ==
    /\ last.op = "add"
    /\ ~Exists(last.pre)
    /\ enable_wg_reload
    /\ last.status = 503

(***************************************************************************)
(* C12.  Two add calls that overlap: both read the file before either      *)
(* wrote.  Their names differ from each other and from every listed name,  *)
(* their addresses differ from each other and are free in the text read.   *)
(* Then both report success, and once both have written the file is the    *)
(* text read with the block of the second writer appended (followed by the *)
(* last characters of the first writer's text when that text is the longer *)
(* one and was written after the second writer had opened the file): no    *)
(* header carries the first writer's name, and its address is the address  *)
(* of no listed peer.                                                      *)
(***************************************************************************)
FreeIn(content, ip) ==
    /\ HostAddress(ip) # Invalid
    /\ HostAddress(ip) # SERVER_IP
    /\ ~SameHost(Registry(content), ip)

\* a and b are finished calls that read the same text at the same time
Overlapped(a, b) ==
    /\ a # b
    /\ calls[a].pc = "done" /\ calls[b].pc = "done"
    /\ calls[a].epoch = calls[b].epoch
    /\ Exists(calls[a].content)
    /\ calls[a].content = calls[b].content

DistinctAndFree(a, b) ==
    /\ calls[a].req.name # calls[b].req.name
    /\ ~HasName(Registry(calls[a].content), calls[a].req.name)
    /\ ~HasName(Registry(calls[a].content), calls[b].req.name)
    /\ HostAddress(calls[a].req.assigned_ip) # HostAddress(calls[b].req.assigned_ip)
    /\ FreeIn(calls[a].content, calls[a].req.assigned_ip)
    /\ FreeIn(calls[a].content, calls[b].req.assigned_ip)

\* the file call c writes: the text it read, stripped, and its block
TextOf(c) ==
    RStrip(calls[c].content) \o <<NL>>
    \o generate_peer_block(calls[c].req.name, calls[c].req.public_key,
                           calls[c].req.assigned_ip, calls[c].req.added_at,
                           calls[c].req.endpoint, calls[c].req.preshared_key)
    \o <<NL>>

\* the file is the text of b, followed by the end of the text of a when a wrote
\* a longer text after b had opened the file; the record of a is not listed
OnlyTheSecond(a, b) ==
    /\ store \in {TextOf(b), WriteAtStart(TextOf(b), TextOf(a))}
    /\ ~Carries(store, calls[a].req.name)
    /\ ~HasName(Registry(store), calls[a].req.name)
    /\ ~SameHost(Registry(store), calls[a].req.assigned_ip)
    /\ SameHost(Registry(store), calls[b].req.assigned_ip)
    /\ Len(Registry(store)) = Len(Registry(calls[b].content)) + 1

C12_LostUpdate ==
    \A a, b \in CallIds :
        (Overlapped(a, b) /\ DistinctAndFree(a, b)) =>
            /\ calls[a].error = "none" /\ calls[b].error = "none"
            /\ Len(written) = calls[a].epoch + 2
            /\ (written[Len(written)] = b => OnlyTheSecond(a, b))

\* both calls had opened the file before the first wrote, and the first wrote
\* the longer text
C12_Witness ==
    /\ Overlapped(1, 2) /\ DistinctAndFree(1, 2)
    /\ written = <<1, 2>>
    /\ calls[1].content = SAMPLE_WG_CONFIG
    /\ Len(Registry(store)) = 2
    /\ store # TextOf(2)

(***************************************************************************)
(* C13.  resolve(queryName, queryType) returns an address exactly when the *)
(* type is A, the query name, lowered and its trailing dots removed, ends  *)
(* with the suffix, and the text before the suffix is a key of the current *)
(* mapping; the address is the one mapped to that key.  In every other     *)
(* case it returns None.                                                   *)
(***************************************************************************)
\* the query name lowered, without its trailing dots
Normalised(qname) == RStripDots(Lower(qname))

DeviceName(qname) ==
    SubSeq(Normalised(qname), 1, Len(Normalised(qname)) - Len(DOMAIN_SUFFIX))

Resolvable(mapping, qname, qtype) ==
    /\ qtype = QTYPE_A
    /\ EndsWith(Normalised(qname), DOMAIN_SUFFIX)
    /\ DeviceName(qname) \in DOMAIN mapping

ResolvedFrom(mapping, qname, qtype) ==
    /\ (last.value # None) <=> Resolvable(mapping, qname, qtype)
    /\ Resolvable(mapping, qname, qtype) => last.value = mapping[DeviceName(qname)]

C13_Resolve ==
    last.op = "resolve" =>
        ResolvedFrom(get_name_to_ip_mapping(store), last.req.name, last.req.assigned_ip[1])

C13_Witness ==
    /\ last.op = "resolve"
    /\ last.req.name = <<"test-device">> \o DOMAIN_SUFFIX \o <<".">>
    /\ last.value = Ip5

(***************************************************************************)
(* C14.  The resolver caches nothing.  The claim: an A query for n +       *)
(* suffix, n lowered and no alias, is answered with an address exactly     *)
(* when the file as it is now has a peer whose lowered name is n; the name *)
(* of a peer resolves once its add has completed, and no longer once its   *)
(* remove has completed.                                                   *)
(* Refuted in its second half: every answer is computed from the file as   *)
(* it is (C14_AnsweredFromTheFile holds), but an add that succeeded with   *)
(* an empty name left a block that is not decoded, so its name does not    *)
(* resolve; and after add("test-device ") beside test-device, the remove   *)
(* of test-device succeeds and test-device still resolves, to the address  *)
(* of the other block.                                                     *)
(***************************************************************************)
HasLoweredName(peers, n) == \E k \in 1..Len(peers) : Lower(peers[k].name) = n

\* the query just answered asked for the name n of a device, n lowered and no alias
AskedFor(n) ==
    /\ last.op = "resolve"
    /\ last.req.assigned_ip = <<QTYPE_A>>
    /\ last.req.name = n \o DOMAIN_SUFFIX
    /\ n = Lower(n)
    /\ n \notin ALIASES

C14_AnsweredFromTheFile ==
    \A n \in {<<"test-device">>, <<"new-device">>} :
        AskedFor(n) => ((last.value # None) <=> HasLoweredName(Registry(store), n))

Resolves(st, name) == resolve_query(st, Lower(name) \o DOMAIN_SUFFIX, QTYPE_A) # None

C14_ResolvesOnceAdded ==
    (last.op = "add" /\ last.success /\ Lower(last.req.name) \notin ALIASES) =>
        Resolves(store, last.req.name)

C14_NotOnceRemoved ==
    (last.op = "del" /\ last.success /\ Lower(last.req.name) \notin ALIASES) =>
        ~Resolves(store, last.req.name)

C14_NoCache ==
    /\ C14_AnsweredFromTheFile
    /\ C14_ResolvesOnceAdded
    /\ C14_NotOnceRemoved

(***************************************************************************)
(* C15.  Whatever the file is (absent, without peers, with any peers, a    *)
(* peer named server or gateway among them), an A query for server +       *)
(* suffix and one for gateway + suffix are answered with 10.8.0.1.         *)
(***************************************************************************)
C15_AliasesResolveToRoot ==
    /\ \A alias \in ALIASES :
           resolve_query(store, alias \o DOMAIN_SUFFIX, QTYPE_A) = ROOT_ADDRESS
    /\ (/\ last.op = "resolve"
        /\ last.req.assigned_ip = <<QTYPE_A>>
        /\ \E alias \in ALIASES : DeviceName(last.req.name) = alias
                                  /\ EndsWith(Normalised(last.req.name), DOMAIN_SUFFIX))
       => last.value = ROOT_ADDRESS

\* the alias is asked for while a peer of that name is in the file
C15_Witness ==
    /\ last.op = "resolve"
    /\ last.req.assigned_ip = <<QTYPE_A>>
    /\ last.req.name = <<"server">> \o DOMAIN_SUFFIX
    /\ HasLoweredName(Registry(store), <<"server">>)
    /\ last.value = ROOT_ADDRESS

(***************************************************************************)
(* C16.  The claim: every datagram the loop receives that decodes as a     *)
(* query gets exactly one reply, sent to the address it came from: one A   *)
(* answer with TTL 60 when the resolver returns an address, else response  *)
(* code 3 and no answer; a datagram that does not decode gets no reply.    *)
(* Refuted: when the address the resolver returns is no dotted quad (a     *)
(* peer whose AllowedIPs is fd00::5/128), building the answer raises, the  *)
(* loop prints the error and sends nothing.                                *)
(***************************************************************************)
OneReplyTo(d, sent) ==
    /\ Len(sent) = 1
    /\ sent[1].to = d.addr
    /\ sent[1].message.id = d.id

RepliedWith(d, ip, sent) ==
    /\ OneReplyTo(d, sent)
    /\ IF ip # None
       THEN /\ sent[1].message.rcode = 0
            /\ Len(sent[1].message.rr) = 1
            /\ sent[1].message.rr[1].rtype = QTYPE_A
            /\ sent[1].message.rr[1].ttl = 60
            /\ sent[1].message.rr[1].rname = d.qname
            /\ IpStr(sent[1].message.rr[1].rdata) = ip
       ELSE /\ sent[1].message.rcode = 3
            /\ sent[1].message.rr = <<>>

C16_OneReplyPerQuery ==
    last.op = "datagram" =>
        IF last.req.decodes
        THEN RepliedWith(last.req, resolve_query(store, last.req.qname, last.req.qtype),
                         last.value)
        ELSE last.value = <<>>

(***************************************************************************)
(* C17.  The claim: when stop() is called at any time after                *)
(* start_background(), the loop thread being scheduled fairly, the loop    *)
(* eventually leaves and closes its socket.                                *)
(* Refuted: a stop() that clears the flag before the thread has executed   *)
(* self.running = True is overwritten by that assignment; the loop then    *)
(* runs for ever, and the join of stop() gives up after two seconds.       *)
(***************************************************************************)
C17_StopIsObserved ==
    stop_called ~> (thread = "exited" /\ socket = "closed")

(***************************************************************************)
(* C18.  No query writes the file: the list with its runtime status, the   *)
(* P2P candidates, the next free address, the two conflict checks and the  *)
(* resolver (which builds its mapping) leave the text as it was, so what   *)
(* the status command reported is in the answers only, never in the file.  *)
(***************************************************************************)
QueryOps == {"list", "p2p", "template", "check_ip", "check_name", "resolve"}

C18_QueriesLeaveTheFile ==
    [][last'.op \in QueryOps => (store' = store /\ last'.pre = store)]_vars

\* the list was answered with a handshake time merged in, and the file is as before
C18_Witness ==
    /\ last.op = "list"
    /\ \E k \in 1..Len(last.value) : last.value[k].latest_handshake # None
    /\ store = last.pre
    /\ Exists(store)

(***************************************************************************)
(* C19.  The claim: whatever the status command does (not installed, exit  *)
(* status not zero, output of any shape), the list is answered without an  *)
(* error and has every decoded peer in the order of the file; when the     *)
(* command cannot be run every runtime field is None.                      *)
(* Refuted: a line of 8 tab-separated parts whose handshake, rx or tx part *)
(* is no number makes int() raise ValueError, which get_runtime_status and *)
(* list_peers do not catch, and so does a command that may not be executed *)
(* (PermissionError).                                                      *)
(***************************************************************************)
SamePeers(infos, peers) ==
    /\ Len(infos) = Len(peers)
    /\ \A k \in 1..Len(peers) :
           /\ infos[k].name = peers[k].name
           /\ infos[k].public_key = peers[k].public_key
           /\ infos[k].allowed_ips = peers[k].allowed_ips
           /\ infos[k].added_at = peers[k].added_at
           /\ infos[k].endpoint = peers[k].endpoint

NoRuntimeFields(infos) ==
    \A k \in 1..Len(infos) :
        /\ infos[k].latest_handshake = None
        /\ infos[k].transfer_rx = None
        /\ infos[k].transfer_tx = None

C19_ListedWhateverTheStatus ==
    last.op = "list" =>
        /\ last.success /\ last.status = 200
        /\ SamePeers(last.value, Registry(store))
        /\ last.req.kind # "stdout" => NoRuntimeFields(last.value)

(***************************************************************************)
(* C20.  The claim: decode returns, in the order of the file, exactly the  *)
(* blocks that have both a PublicKey and an AllowedIPs field; a block that *)
(* lacks one of them is skipped, and the records of the other blocks are   *)
(* the ones decoded from the file without that block.                      *)
(* Refuted: a block with neither field whose [Peer] line is directly       *)
(* followed by the banner of the next block takes the header of that next  *)
(* block for its body, and the next block is not decoded.                  *)
(***************************************************************************)
Complete(b) == b.body = "both"

RecordOf(b) ==
    [name |-> BlockName(b.id), public_key |-> BlockKey(b.id), allowed_ips |-> BlockIps(b.id),
     added_at |-> <<"2026-01-27">>, endpoint |-> None, preshared_key |-> None]

RecordsOf(blocks) == [k \in 1..Len(blocks) |-> RecordOf(blocks[k])]

DecodedAs(value, complete) ==
    /\ value = RecordsOf(complete)
    /\ value = parse_peers(DocOf(complete))

C20_SkipsIncompleteBlocks ==
    last.op = "parse" => DecodedAs(last.value, SelectSeq(last.req.blocks, Complete))

(***************************************************************************)
(* C21.  The claim: for every peer record whose endpoint and preshared key *)
(* are each absent or a value, decoding the block that encode renders for  *)
(* it yields exactly one record, equal to it in name, public key, allowed  *)
(* address, date stamp, endpoint and preshared key.                        *)
(* Refuted: a name with a blank at its end comes back without it, an empty *)
(* name gives a block that is not decoded, and after an empty public key   *)
(* the next line is taken for the key.                                     *)
(***************************************************************************)
AbsentOrValue(v) == v # <<>>

C21_RoundTrip ==
    (/\ last.op = "decode"
     /\ AbsentOrValue(last.req.endpoint)
     /\ AbsentOrValue(last.req.preshared_key))
    => last.value = <<Supplied(last.req)>>

\* the records that do come back: no field is empty or begins or ends with a blank
Trimmed(v) == v # <<>> /\ Strip(v) = v

C21_TrimmedRoundTrip ==
    (/\ last.op = "decode"
     /\ Trimmed(last.req.name)
     /\ Trimmed(last.req.public_key)
     /\ Trimmed(last.req.endpoint)
     /\ Trimmed(last.req.preshared_key))
    => last.value = <<Supplied(last.req)>>

(***************************************************************************)
(* C22.  The file is an interface block followed by peer blocks.  A peer   *)
(* block begins with the empty line before its banner, as                  *)
(* generate_peer_block renders it, and ends before the next one; the       *)
(* interface block is the text before the first peer block.                *)
(* The claim: an add or a remove leaves the interface block as it was, and *)
(* the text of every peer block whose header does not carry the name of    *)
(* the call; the blocks keep their order, and an add changes no block that *)
(* was there.                                                              *)
(* Refuted: add_peer strips the white space at the end of the text it      *)
(* read.  When the last line of the file is a field line that ends with    *)
(* blanks, the next add takes them away, and the field, decoded as the     *)
(* empty text before, is decoded as missing afterwards.                    *)
(***************************************************************************)
BlockStarts(t) ==
    {IF At(t, j - 1) = NL THEN j - 1 ELSE j :
        j \in {i \in 1..Len(t) : StartsAt(t, i, HEADER_START)}}

NthStart(starts, k) == CHOOSE j \in starts : Cardinality({i \in starts : i < j}) = k - 1

BlockAt(t, starts, k) ==
    SubSeq(t, NthStart(starts, k),
           IF k = Cardinality(starts) THEN Len(t) ELSE NthStart(starts, k + 1) - 1)

BlocksOn(t, starts) == [k \in 1..Cardinality(starts) |-> BlockAt(t, starts, k)]

PeerBlocks(st) == BlocksOn(st, BlockStarts(st))

InterfaceOn(t, starts) ==
    IF starts = {} THEN t ELSE SubSeq(t, 1, NthStart(starts, 1) - 1)

InterfaceBlock(st) == InterfaceOn(st, BlockStarts(st))

\* the header of block b has the line "# ClientName: <name>"
BlockNamed(b, name) ==
    \E j \in 1..2 : StartsAt(b, j, HEADER_START \o name \o NAME_END)

OtherBlocks(blocks, name) == SelectSeq(blocks, LAMBDA b : ~BlockNamed(b, name))

IsPrefix(s, t) == Len(s) <= Len(t) /\ SubSeq(t, 1, Len(s)) = s

Preserved(interface, blocks, interface_after, blocks_after, op, name) ==
    /\ interface_after = interface
    /\ OtherBlocks(blocks_after, name) = OtherBlocks(blocks, name)
    /\ op = "add" => IsPrefix(blocks, blocks_after)

C22_OthersPreserved ==
    (last.op \in {"add", "del"} /\ Exists(last.pre)) =>
        Preserved(InterfaceBlock(last.pre), PeerBlocks(last.pre),
                  InterfaceBlock(store), PeerBlocks(store), last.op, last.req.name)

\* what does hold: the same with the white space at the end of each block
\* taken for the separator between it and the next, and left out
AllRStrip(blocks) == [k \in 1..Len(blocks) |-> RStrip(blocks[k])]

C22_PreservedButTrailingBlanks ==
    (last.op \in {"add", "del"} /\ Exists(last.pre)) =>
        Preserved(RStrip(InterfaceBlock(last.pre)), AllRStrip(PeerBlocks(last.pre)),
                  RStrip(InterfaceBlock(store)), AllRStrip(PeerBlocks(store)),
                  last.op, last.req.name)

\* a remove took a block out of a file in which a later one stays
C22_RemovedBeforeAnother ==
    /\ last.op = "del"
    /\ last.success
    /\ Len(PeerBlocks(last.pre)) >= 2
    /\ Len(PeerBlocks(store)) = Len(PeerBlocks(last.pre)) - 1
    /\ ~BlockNamed(PeerBlocks(last.pre)[Len(PeerBlocks(last.pre))], last.req.name)

(***************************************************************************)
(* C23.  The claim: findByEndpoint returns, in the order of list(), the    *)
(* records that carry a non-empty endpoint and no other; it returns none   *)
(* when no record carries one.                                             *)
(* Refuted: the candidates are the records whose endpoint is not None, and *)
(* a line "Endpoint = " followed by blanks only is decoded as the empty    *)
(* text: that record is returned with an empty endpoint.                   *)
(***************************************************************************)
CarriesEndpoint(p) == p.endpoint # None /\ p.endpoint # <<>>

C23_FindByEndpoint ==
    last.op = "block candidates" =>
        last.value = SelectSeq(parse_peers(BlockOf(last.req)), CarriesEndpoint)

\* what does hold: the candidates are the records with an endpoint field
C23_EndpointDecoded ==
    last.op = "block candidates" =>
        last.value = SelectSeq(parse_peers(BlockOf(last.req)), IsCandidate)

(***************************************************************************)
(* C24.  The claim: reload_wg is called only by an add or a remove that    *)
(* has written the file, and only when the reload is enabled; it is not    *)
(* called after a conflict, after a remove that found no block, or when    *)
(* the file is missing; and a reload that fails leaves the success the     *)
(* caller is told of, and the file the add or the remove wrote.  The       *)
(* contract of the reload is a boolean, its failure not fatal to the       *)
(* caller: a reload that fails is one that did not come to True.           *)
(***************************************************************************)
Failures == {"NameConflict", "AddressConflict", "InvalidAddress", "NotFound", "StoreNotFound"}

\* the file is the one an add or a remove has written over the file pre: it is
\* there, it is not the emptied file, and it has a block more, or fewer
DocumentWritten(op, pre) ==
    /\ Exists(pre)
    /\ Exists(store)
    /\ store # <<>>
    /\ store # pre
    /\ IF op = "add" THEN NumBlocks(store) = NumBlocks(pre) + 1
       ELSE NumBlocks(store) < NumBlocks(pre)

\* in the handler that is running: the call of reload_wg has come after the
\* write, with the setting on
ReloadCalledAfterWrite ==
    calls[1].reload # "none" =>
        /\ calls[1].pc \in {"add written", "del written"}
        /\ enable_wg_reload
        /\ DocumentWritten(IF calls[1].pc = "add written" THEN "add" ELSE "del",
                           calls[1].content)

\* in the handler that has answered
ReloadAnsweredAfterWrite ==
    (last.reload /\ last.op # "reload") =>
        /\ last.op \in {"add", "del"}
        /\ enable_wg_reload
        /\ DocumentWritten(last.op, last.pre)

NoReloadAfterFailure ==
    last.error \in Failures =>
        /\ ~last.reload
        /\ calls[1] = IdleCall
        /\ store = last.pre

NoReloadWhenDisabled ==
    ~enable_wg_reload => (~last.reload /\ calls[1].reload = "none")

\* the answer to the caller after a reload that came to outcome
Dropped(outcome) ==
    (last.op \in {"add", "del"} /\ last.reload /\ last.value = <<outcome>>) =>
        /\ last.success
        /\ last.status = 200
        /\ last.error = "none"
        /\ DocumentWritten(last.op, last.pre)

ReloadFailureIsDropped ==
    \A run \in ReloadRuns : reload_wg(run) # "True" => Dropped(reload_wg(run))

C24_ReloadAfterSuccessOnly ==
    /\ ReloadCalledAfterWrite
    /\ ReloadAnsweredAfterWrite
    /\ NoReloadAfterFailure
    /\ NoReloadWhenDisabled
    /\ ReloadFailureIsDropped

\* the same for the failures reload_wg returns False for: this much holds
C24_WhenReloadReturnsFalse ==
    /\ ReloadCalledAfterWrite
    /\ ReloadAnsweredAfterWrite
    /\ NoReloadAfterFailure
    /\ NoReloadWhenDisabled
    /\ Dropped("False")

\* a reload that returned False after a remove that wrote the file
C24_ReloadReturnedFalse ==
    /\ last.op = "del"
    /\ last.reload
    /\ last.value = <<"False">>
    /\ last.success
    /\ store # last.pre

\* a reload that raised after an add that wrote the file: the caller is told
\* of a failure
C24_ReloadRaised ==
    /\ last.op = "add"
    /\ last.reload
    /\ last.value = <<"UnicodeDecodeError">>
    /\ last.status = 500
    /\ ~last.success
    /\ DocumentWritten("add", last.pre)

(***************************************************************************)
(* C25.  A remove that returned True is undone by an add of another name   *)
(* that read the file, the peer still in it, before the remove wrote, and  *)
(* that writes after it: the file begins with the text the add read and    *)
(* its block, so the removed peer is listed and resolved again, and no add *)
(* for its name was made.                                                  *)
(***************************************************************************)
\* the place in written of the last write of caller c, 0 when it wrote nothing
LastWrite(c) ==
    IF \E k \in 1..Len(written) : written[k] = c
    THEN CHOOSE k \in 1..Len(written) :
             written[k] = c /\ \A j \in (k + 1)..Len(written) : written[j] # c
    ELSE 0

\* the add of caller a has just written; the remove of caller r returned True
\* and wrote after the add had read a text that has the peer
WroteOverRemoval(a, r) ==
    /\ a # r
    /\ calls[a].pc = "done" /\ calls[a].error = "none"
    /\ calls[r].pc = "del done" /\ calls[r].error = "none"
    /\ Len(written) >= 2 /\ written[Len(written)] = a
    /\ LastWrite(r) > calls[a].epoch
    /\ calls[a].req.name # calls[r].req.name
    /\ HasName(Registry(calls[a].content), calls[r].req.name)

C25_RemovalUndone ==
    \A a, r \in CallIds :
        WroteOverRemoval(a, r) =>
            /\ HasName(Registry(store), calls[r].req.name)
            /\ Resolves(store, calls[r].req.name)
            /\ IsPrefix(TextOf(a), store)

\* test-device was removed by caller 1 and is listed again after the add of
\* new-device by caller 2
C25_Witness ==
    /\ WroteOverRemoval(2, 1)
    /\ written = <<1, 2>>
    /\ calls[1].req.name = <<"test-device">>
    /\ calls[2].req.name = <<"new-device">>
    /\ HasName(Registry(store), <<"test-device">>)
    /\ Resolves(store, <<"test-device">>)

(***************************************************************************)
(* C26.  The files of RaceStores have pairwise distinct names and host     *)
(* addresses.  The claim: whatever the order of the reads and writes of    *)
(* concurrent add and remove calls, every file written has pairwise        *)
(* distinct decoded names and pairwise distinct host addresses.            *)
(* Refuted, and by one call alone: the name "test-device " passes the name *)
(* check beside the stored "test-device" and is decoded to the same name.  *)
(***************************************************************************)
C26_NoDuplicatesWritten ==
    Len(written) >= 1 =>
        /\ DistinctNames(Registry(store))
        /\ DistinctHosts(Registry(store))

(***************************************************************************)
(* C27.  The claim: an allocation request reserves nothing, the next one   *)
(* is given the same address; and once an add with the address offered has *)
(* succeeded, the add of a second client with that address fails with      *)
(* AddressConflict and leaves the file as it is.                           *)
(* Refuted in its second half: the add of a client with the empty name     *)
(* writes a block that is not decoded, its address counts as free, and the *)
(* add of the second client with the same address succeeds as well.        *)
(***************************************************************************)
\* the allocation request that follows is answered as the last one was
OfferedAgain(next) ==
    /\ next.status = last.status
    /\ next.error = last.error
    /\ next.value = last.value

\* ip is the address an allocation request on the file st is offered
Offered(st, ip) == HostAddress(ip) = get_next_available_ip(st)

\* the add of a second client, its name not in use, with the address ip
SecondAdd(st, ip) ==
    add_peer(st, <<"second-client">>, <<"SECOND_PUBLIC_KEY">>, ip, TODAY, None, None)

Refused(st, second) == second.error = "AddressConflict" /\ second.content = st

C27_ReservesNothing ==
    /\ last.op = "template" => OfferedAgain(get_config_template(store, last.req))
    /\ (last.op = "add" /\ last.success /\ Offered(last.pre, last.req.assigned_ip)) =>
           Refused(store, SecondAdd(store, last.req.assigned_ip))

\* what does hold: the same for the adds whose name is not empty
C27_ReservesNothingWhenNamed ==
    /\ last.op = "template" => OfferedAgain(get_config_template(store, last.req))
    /\ (/\ last.op = "add" /\ last.success /\ Offered(last.pre, last.req.assigned_ip)
        /\ last.req.name # <<>>) =>
           Refused(store, SecondAdd(store, last.req.assigned_ip))

\* the address offered was added, and the next request is offered another
C27_OfferedThenAdded ==
    /\ last.op = "add" /\ last.success /\ Offered(last.pre, last.req.assigned_ip)
    /\ last.req.name # <<>>
    /\ ~Offered(store, last.req.assigned_ip)

(***************************************************************************)
(* C28.  One run of the service loop (start_background is called once).    *)
(* The loop is unbound while it has no socket, listening from bind to      *)
(* close, stopped after close.  The claim, step by step:                   *)
(* the loop only moves from unbound to listening to stopped; a datagram is *)
(* received and answered only while listening; what is sent for a datagram *)
(* is sent before the loop is back at its test, at most one message, to    *)
(* the sender of that datagram; a datagram that does not decode, an        *)
(* exception of the handler and a receive timeout lead back to the test    *)
(* with the socket still bound; the loop leaves only at its test, the flag *)
(* being false after a stop(); the socket is closed by the leaving loop,   *)
(* once, and nothing is received or sent after that.                       *)
(***************************************************************************)
Phase == IF socket = "None" THEN 0 ELSE IF socket = "bound" THEN 1 ELSE 2

PhaseAfter == IF socket' = "None" THEN 0 ELSE IF socket' = "bound" THEN 1 ELSE 2

AtMostOneReplyTo(d, sent) ==
    /\ Len(sent) <= 1
    /\ \A k \in 1..Len(sent) : sent[k].to = d.addr /\ sent[k].message.id = d.id

LoopStep ==
    /\ PhaseAfter \in {Phase, Phase + 1}
    /\ last' # last =>
           /\ socket = "bound" /\ socket' = "bound"
           /\ thread = "recv" /\ thread' = "test"
           /\ last'.op = "datagram"
           /\ AtMostOneReplyTo(last'.req, last'.value)
    /\ thread = "recv" => (thread' \in {"recv", "test"} /\ socket' = "bound")
    /\ (thread' = "leaving" /\ thread # "leaving") =>
           (thread = "test" /\ ~running /\ stop_called)
    /\ (socket' = "closed" /\ socket # "closed") =>
           (thread = "leaving" /\ thread' = "exited")
    /\ socket = "closed" => (socket' = "closed" /\ thread' = "exited" /\ last' = last)

C28_LoopLifecycle == [][LoopStep]_vars

\* the loop has printed the error of a handler, was stopped later and has
\* closed its socket
C28_Witness ==
    /\ last.op = "datagram"
    /\ last.error = "DNS Error"
    /\ stop_called
    /\ socket = "closed"
    /\ thread = "exited"


(***************************************************************************)
(* C29.  The list with status gives a peer its handshake, rx and tx        *)
(* exactly when the status has an entry under the peer's public key, and   *)
(* the values are those of that entry (of the last line of the key); a     *)
(* peer without an entry has all three None; a handshake of 0 is None; the *)
(* first line of the status and a line of fewer than 8 tab-separated parts *)
(* make no entry.  Stated on the text the command printed, for every list  *)
(* that was answered.                                                      *)
(***************************************************************************)
RawLines(run) == Split(Strip(run.stdout), NL)

\* the lines after the first that have 8 parts and the key as their first
EntriesOf(lines, key) ==
    {k \in 2..Len(lines) :
        Len(Split(lines[k], TAB)) >= 8 /\ Split(lines[k], TAB)[1] = key}

LatestEntry(lines, entries) ==
    Split(lines[CHOOSE k \in entries : \A j \in entries : j <= k], TAB)

TakenFrom(info, parts) ==
    /\ info.latest_handshake = (IF parts[5] = <<"0">> THEN None ELSE IntText(parts[5]))
    /\ info.transfer_rx = IntText(parts[6])
    /\ info.transfer_tx = IntText(parts[7])

Attached(info, lines, entries) ==
    IF entries = {}
    THEN /\ info.latest_handshake = None
         /\ info.transfer_rx = None
         /\ info.transfer_tx = None
    ELSE /\ info.transfer_rx # None
         /\ info.transfer_tx # None
         /\ TakenFrom(info, LatestEntry(lines, entries))

AttachedAll(infos, lines) ==
    \A k \in 1..Len(infos) :
        Attached(infos[k], lines, EntriesOf(lines, infos[k].public_key))

C29_StatusMerged ==
    (last.op = "list" /\ last.success) =>
        IF last.req.kind = "stdout"
        THEN AttachedAll(last.value, RawLines(last.req))
        ELSE NoRuntimeFields(last.value)

\* a list with a peer whose handshake is 0 and a peer whose key has two lines,
\* the values of the later one attached
C29_Witness ==
    /\ last.op = "list" /\ last.success /\ last.req.kind = "stdout"
    /\ \E k \in 1..Len(last.value) :
           /\ last.value[k].latest_handshake = None
           /\ last.value[k].transfer_rx = <<"7">>
    /\ \E k \in 1..Len(last.value) :
           /\ last.value[k].latest_handshake = <<"5">>
           /\ last.value[k].transfer_tx = <<"-", "1">>


(***************************************************************************)
(* C30.  The claim: after any adds and removes, every peer of the list is  *)
(* resolved by its own name: an A query for the name and the suffix, in    *)
(* any case of its letters, is answered with the host part of the peer's   *)
(* AllowedIPs.                                                             *)
(* Refuted: check_name_conflict compares the names as they are written, so *)
(* add("a") and add("A") both succeed, and the mapping has one entry for   *)
(* the lowered name, the address of the later peer: the earlier peer is    *)
(* listed and its name resolves to the other peer's address.  A peer named *)
(* Server or gateway is listed and its name resolves to 10.8.0.1 (C15).    *)
(***************************************************************************)
SpellingsOf(name) == {n \in Spellings : Lower(n) = Lower(name)} \cup {name}

ResolvesToOwn(st, p) ==
    \A n \in SpellingsOf(p.name) :
        resolve_query(st, n \o DOMAIN_SUFFIX, QTYPE_A) = SplitHead(p.allowed_ips, "/")

C30_ResolvableByOwnName ==
    \A k \in 1..Len(Registry(store)) : ResolvesToOwn(store, Registry(store)[k])

\* what does hold: the peer resolves by its name unless the name lowered is an
\* alias or the lowered name of a later peer
Shadowed(peers, k) ==
    \/ Lower(peers[k].name) \in ALIASES
    \/ \E j \in (k + 1)..Len(peers) : Lower(peers[j].name) = Lower(peers[k].name)

UnshadowedResolve(st, peers) ==
    \A k \in 1..Len(peers) : Shadowed(peers, k) \/ ResolvesToOwn(st, peers[k])

C30_ResolvableUnlessShadowed == UnshadowedResolve(store, Registry(store))

\* the peers a and A are both listed, and the query for a was answered with
\* the address of A
C30_LaterPeerAnswered ==
    /\ last.op = "resolve" /\ last.req.name = <<"a">> \o DOMAIN_SUFFIX
    /\ Len(Registry(store)) = 2
    /\ Registry(store)[1].name = <<"a">> /\ Registry(store)[2].name = <<"A">>
    /\ last.value = SplitHead(Registry(store)[2].allowed_ips, "/")
    /\ last.value # SplitHead(Registry(store)[1].allowed_ips, "/")


(***************************************************************************)
(* C31.  The claim: remove(name) returns true exactly when the list just   *)
(* before the call had a peer of that name, and it then deletes exactly    *)
(* one block.                                                              *)
(* Refuted: the list has the names stripped, remove looks for the name as  *)
(* it is written.  A peer whose header line ends with a blank is listed as *)
(* test-device and remove("test-device") returns false; a block with an    *)
(* empty name is not listed and remove("") returns true.                   *)
(***************************************************************************)
C31_RemoveIffListed ==
    (last.op = "del" /\ Exists(last.pre)) =>
        /\ last.success <=> NameIn(last.req.name, Registry(last.pre))
        /\ last.success => NumBlocks(store) = NumBlocks(last.pre) - 1

\* what does hold: remove returns true exactly when a header line of the file
\* carries the name as written, and the file then has that many blocks fewer
HeadersOf(st, name) ==
    Cardinality({j \in 1..Len(st) :
                    StartsAt(st, j, <<"# ClientName:", " ">> \o name \o <<NL>>)})

C31_RemoveIffCarried ==
    (last.op = "del" /\ Exists(last.pre)) =>
        /\ last.success <=> Carries(last.pre, last.req.name)
        /\ NumBlocks(store) = NumBlocks(last.pre) - HeadersOf(last.pre, last.req.name)

\* the name was listed and the remove returned false
C31_ListedNotRemoved ==
    /\ last.op = "del" /\ Exists(last.pre)
    /\ NameIn(last.req.name, Registry(last.pre))
    /\ ~last.success
    /\ store = last.pre


(***************************************************************************)
(* C32.  The claim: after an add that succeeded, the remove of the added   *)
(* name returns true, the list is again the list before the add, the file  *)
(* is again the text before the add when that text ended in a single line  *)
(* break, and the same add succeeds again.                                 *)
(* Refuted: after add("") twice (both succeed, the block with the empty    *)
(* name is not decoded) remove("") deletes both blocks, so the file is not *)
(* the text before the second add; and add strips the end of the text it   *)
(* read, so after a block whose last line ends with a blank                *)
(* ("Endpoint =  ") the add and the remove of another peer leave           *)
(* "Endpoint =", and the peer of that block is listed with another         *)
(* endpoint.                                                               *)
(***************************************************************************)
AddAgain(st, req) ==
    add_peer(st, req.name, req.public_key, req.assigned_ip, req.added_at,
             req.endpoint, req.preshared_key)

SingleNewline(st) == Len(st) >= 2 /\ st[Len(st)] = NL /\ st[Len(st) - 1] # NL

Undone(pre, req, r) ==
    /\ r.removed
    /\ Registry(r.content) = Registry(pre)
    /\ SingleNewline(pre) => r.content = pre
    /\ AddAgain(r.content, req).error = "none"

C32_AddThenRemove ==
    (last.op = "add" /\ last.success) =>
        Undone(last.pre, last.req, remove_peer(store, last.req.name))

\* what does hold: the same for a name that is not empty and a text read that
\* ends with one line break and no blank before it
C32_AddThenRemoveOnTrimmedText ==
    (last.op = "add" /\ last.success /\ last.req.name # <<>>
        /\ last.pre = RStrip(last.pre) \o <<NL>>) =>
        Undone(last.pre, last.req, remove_peer(store, last.req.name))

\* an add after which the remove restores the text and the same add succeeds
C32_Restored ==
    /\ last.op = "add" /\ last.success /\ last.req.name = <<"new-device">>
    /\ Registry(last.pre) # <<>>
    /\ remove_peer(store, last.req.name).removed
    /\ remove_peer(store, last.req.name).content = last.pre
    /\ AddAgain(remove_peer(store, last.req.name).content, last.req).error = "none"


(***************************************************************************)
(* C33.  The claim: an add with the root address 10.8.0.1, with or without *)
(* a prefix length, fails with AddressConflict, also on a file without     *)
(* peers, so no peer that add wrote has the root address.                  *)
(* Refuted: add_peer writes the public key as given, and the decoder takes *)
(* the first AllowedIPs line of the block: the add of the address 10.8.0.2 *)
(* with the key "NEW_PUBLIC_KEY\nAllowedIPs = 10.8.0.1/32" succeeds and    *)
(* the peer it wrote is listed with 10.8.0.1/32.  And the name is checked  *)
(* before the address (C4): with a name in use the add of the root address *)
(* fails with NameConflict.                                                *)
(***************************************************************************)
AsksForRoot == IPv4Address(SplitHead(last.req.assigned_ip, "/")) = SERVER_IP

NoRootPeer(peers) ==
    \A k \in 1..Len(peers) : HostAddress(peers[k].allowed_ips) # SERVER_IP

C33_RootNeverAdded ==
    /\ (last.op = "add" /\ Exists(last.pre) /\ AsksForRoot) =>
           (last.error = "AddressConflict" /\ store = last.pre)
    /\ NoRootPeer(Registry(store))

\* what does hold: an add of the root address writes nothing, and fails with
\* AddressConflict when its name is not in use
C33_RootIsRefused ==
    (last.op = "add" /\ Exists(last.pre) /\ AsksForRoot) =>
        /\ ~last.success /\ store = last.pre
        /\ last.error = (IF NameIn(last.req.name, Registry(last.pre))
                         THEN "NameConflict" ELSE "AddressConflict")

\* what does hold: a key of one line leaves no peer with the root address
OneLine(v) == \A i \in 1..Len(v) : v[i] # NL

C33_NoRootPeerFromOneLineKeys ==
    (last.op = "add" /\ last.success /\ OneLine(last.req.public_key)
        /\ NoRootPeer(Registry(last.pre))) => NoRootPeer(Registry(store))

\* the add of 10.8.0.2 succeeded and its peer is listed with the root address
C33_RootPeerWritten ==
    /\ last.op = "add" /\ last.success /\ ~AsksForRoot
    /\ NoRootPeer(Registry(last.pre))
    /\ ~NoRootPeer(Registry(store))


(***************************************************************************)
(* C34.  calculate_status(expire, today) returns (None, unknown) when      *)
(* there is no expiry date; otherwise the days are expire minus today in   *)
(* whole days, and the status is expired when days < 0, expiring when      *)
(* 0 <= days <= 7, active when days > 7.                                   *)
(***************************************************************************)
StatusBand(days) ==
    IF days < 0 THEN "expired" ELSE IF days <= 7 THEN "expiring" ELSE "active"

StatusAsClaimed(expire_date, today, result) ==
    IF expire_date = Missing
    THEN result.days_remaining = Missing /\ result.status = "unknown"
    ELSE /\ Len(result.days_remaining) = 1
         /\ ToOrdinal(today) + result.days_remaining[1] = ToOrdinal(expire_date)
         /\ result.status = StatusBand(result.days_remaining[1])

C34_CalculateStatus ==
    last.op = "calculate_status" =>
        StatusAsClaimed(last.value.expire_date, last.req.today, last.value.result)

\* the expiry is the 29th of February 2028, today the 28th of January 2026
C34_Witness ==
    /\ last.op = "calculate_status"
    /\ last.value.expire_date = <<2028, 2, 29>>
    /\ last.req.today = <<2026, 1, 28>>
    /\ last.value.result = [days_remaining |-> <<762>>, status |-> "active"]

\* the days the code returned for the dates of the inputs (datetime.date)
C34_DaysOfTheCalendar ==
    /\ (last.op = "calculate_status" /\ last.req.today = <<2026, 1, 28>>) =>
           \A e \in {<<<<2026, 2, 15>>, 18, "active">>, <<<<2026, 1, 20>>, -8, "expired">>,
                     <<<<2026, 1, 28>>, 0, "expiring">>, <<<<2026, 1, 31>>, 3, "expiring">>,
                     <<<<2026, 2, 4>>, 7, "expiring">>, <<<<2026, 2, 5>>, 8, "active">>,
                     <<<<2028, 2, 29>>, 762, "active">>} :
               last.value.expire_date = e[1] =>
                   last.value.result = [days_remaining |-> <<e[2]>>, status |-> e[3]]
    /\ (last.op = "calculate_status" /\ last.req.today = <<2026, 2, 10>>) =>
           \A e \in {<<<<2026, 2, 15>>, 5, "expiring">>, <<<<2026, 1, 20>>, -21, "expired">>,
                     <<<<2026, 2, 4>>, -6, "expired">>, <<<<2028, 2, 29>>, 749, "active">>} :
               last.value.expire_date = e[1] =>
                   last.value.result = [days_remaining |-> <<e[2]>>, status |-> e[3]]


(***************************************************************************)
(* C35.  The claim: get_subscription_status returns the subscriptions in   *)
(* the order expired, expiring, active, unknown, and within one status by  *)
(* ascending days remaining; the four counts of get_status_summary add up  *)
(* to its total.                                                           *)
(* Refuted: the sort key is (rank of the status, days_remaining or 999),   *)
(* and 0 is false as None is, so a subscription that expires today (0 days *)
(* remaining, expiring) is placed after the expiring ones of 1 to 7 days.  *)
(***************************************************************************)
Rank(status) ==
    CASE status = "expired" -> 0 [] status = "expiring" -> 1
      [] status = "active" -> 2 [] status = "unknown" -> 3

InOrder(a, b) ==
    \/ Rank(a.status) < Rank(b.status)
    \/ /\ a.status = b.status
       /\ (a.days_remaining # Missing /\ b.days_remaining # Missing) =>
              a.days_remaining[1] <= b.days_remaining[1]

Ordered(subs) == \A i, j \in 1..Len(subs) : i < j => InOrder(subs[i], subs[j])

CountsAddUp(summary) ==
    summary.expired + summary.expiring + summary.active + summary.unknown = summary.total

C35_OrderedAndCounted ==
    /\ last.op = "subscription_status" => Ordered(last.value)
    /\ last.op = "status_summary" => CountsAddUp(last.value)

\* what does hold: the statuses are in that order, the days ascend within a
\* status but for the subscriptions of 0 days, which come last in theirs; the
\* list has every provider once; the counts add up to the number of providers
DaysAscendButZero(a, b) ==
    (a.status = b.status /\ a.days_remaining # Missing /\ b.days_remaining # Missing) =>
        \/ b.days_remaining = <<0>>
        \/ (a.days_remaining # <<0>> /\ a.days_remaining[1] <= b.days_remaining[1])

OrderedButZero(subs) ==
    \A i, j \in 1..Len(subs) :
        i < j => (Rank(subs[i].status) <= Rank(subs[j].status)
                  /\ DaysAscendButZero(subs[i], subs[j]))

EveryProviderOnce(subs, providers) ==
    /\ Len(subs) = Len(providers)
    /\ \A k \in 1..Len(providers) :
           Cardinality({i \in 1..Len(subs) : subs[i].key = providers[k].key}) = 1

C35_OrderedButZeroDaysLast ==
    last.op = "subscription_status" =>
        /\ OrderedButZero(last.value)
        /\ last.req.exists => EveryProviderOnce(last.value, last.req.providers)
        /\ ~last.req.exists => last.value = <<>>

C35_CountsAddUp ==
    last.op = "status_summary" =>
        /\ CountsAddUp(last.value)
        /\ last.value.total = Len(last.req.providers)
        /\ Len(last.value.subscriptions) = last.value.total

\* the subscription of 0 days was returned after one of 3 days
C35_ZeroDaysLast ==
    /\ last.op = "subscription_status"
    /\ \E i, j \in 1..Len(last.value) :
           /\ i < j
           /\ last.value[i].status = "expiring" /\ last.value[i].days_remaining = <<3>>
           /\ last.value[j].status = "expiring" /\ last.value[j].days_remaining = <<0>>

====
